---- MODULE Spec2Model ----
(***************************************************************************)
(* Model of the GMCR-py conflict analysis engine: the conflict data model  *)
(* (data_01_conflictModel.py) and the reachability matrix generator and    *)
(* logical stability solver (data_02_conflictSolvers.py).                  *)
(*                                                                         *)
(* Conventions.  Python lists are TLA+ sequences; a 0-based Python index i *)
(* reads element i+1 of the sequence (operator At).  An option is named by *)
(* its master_index (0-based).  A decision maker is named by its position  *)
(* (1-based) in conflict.decisionMakers.  A party is a record              *)
(* [isCoalition, members]: an entry of the coalition list is either a      *)
(* DecisionMaker itself (isCoalition = FALSE, one member) or a Coalition.   *)
(* numpy booleans take part in arithmetic and comparisons as 0 and 1, so a *)
(* boolean matrix is kept as a matrix of 0/1.  A matrix M is a function of *)
(* the row index to a function of the column index: M[i][j].               *)
(***************************************************************************)
EXTENDS Integers, Sequences, FiniteSets, TLC

\* ------------------------------------------------------------------ bounds
MaxOptions == 3
MaxDMs == 2
MaxIrreversible == 1
MaxPrefs == 1
MaxNamed == 2
MaxRanked == 2
MaxEdgeOptions == 2
MaxEdgeDMs == 3
MaxRanking == 3
MaxInverseDMs == 2

VARIABLES
    options,          \* conflict.options: permittedDirection of each option, in master order
    decisionMakers,   \* conflict.decisionMakers: [options, preferences] per decision maker
    infeasibles,      \* conflict.infeasibles: infeasible conditions in Yes/No/Dash notation
    feasibles,        \* conflict.feasibles.decimal: feasible states, ascending decimal values
    coalitions,       \* conflict.coalitions: list of parties
    payoffs,          \* dm.payoffs of each decision maker (<<>> until calculated)
    effectiveDMs,     \* RMGenerator.effectiveDMs
    reachability,     \* dm.reachability of each effective party
    payoffMatrix,     \* dm.payoffMatrix of each effective party
    pc,               \* "model": no solver constructed; "built": solver constructed
    call,             \* last query made of the solver: [op, dm, state, ref]
    ret,              \* what that query returned
    stabilities,      \* LogicalSolver.<concept>Stabilities, per concept
    equilibria,       \* LogicalSolver.<concept>Equilibria, per concept
    preferenceRanking,           \* dm.preferenceRanking of each decision maker (<<>> until set)
    useManualPreferenceRanking,  \* conflict.useManualPreferenceRanking
    inverseSolver,    \* the attributes an InverseSolver adds to the RMGenerator's
    lessThans,        \* the dict that is the default of isImpossible(lessThans={})
    preferenceErrors, \* conflict.preferenceErrors: None, or the count in a sequence of one
    errorDetails,     \* RankingEditor.errorDetails of each editor ("" for None)
    refs,             \* Option.refs of each Option object, in the order of creation
    optionItems,      \* conflict.options.itemList: Option objects
    dmOptionItems,    \* dm.options.itemList of each DecisionMaker object, in the order of creation
    dmItems,          \* conflict.decisionMakers.itemList: DecisionMaker objects
    coalitionItems    \* conflict.coalitions.itemList: [isCoalition, members, options]

\* what the preference ranking screen edits
rankingVars == <<preferenceRanking, useManualPreferenceRanking>>

\* what the preference ranking screen keeps about the rankings typed in
editorVars == <<preferenceErrors, errorDetails>>

\* the state of the objects that the matrix generator and the logical solver
\* neither read nor write

\* the objects of the conflict, each named by its number in the order of
\* creation: what the lists hold is the object, whatever its index is
objectVars == <<refs, optionItems, dmOptionItems, dmItems, coalitionItems>>

otherVars == <<inverseSolver, lessThans, editorVars, objectVars>>

vars == <<options, decisionMakers, infeasibles, feasibles, coalitions, payoffs,
          effectiveDMs, reachability, payoffMatrix, pc, call, ret,
          stabilities, equilibria, rankingVars, otherVars>>

conflictVars == <<options, decisionMakers, infeasibles, feasibles>>

\* ------------------------------------------------------------ list helpers
At(seq, i) == seq[i + 1]

Range(seq) == {seq[k] : k \in 1..Len(seq)}

Contains(seq, x) == \E k \in 1..Len(seq) : seq[k] = x

\* list.index(x): 0-based position of the first occurrence of x
IndexOf(seq, x) == (CHOOSE k \in 1..Len(seq) : seq[k] = x /\ \A j \in 1..(k - 1) : seq[j] # x) - 1

RECURSIVE SumSeq(_)
SumSeq(seq) == IF seq = <<>> THEN 0 ELSE Head(seq) + SumSeq(Tail(seq))

RECURSIVE Pow2(_)
Pow2(k) == IF k = 0 THEN 1 ELSE 2 * Pow2(k - 1)

\* sorted(S) for a finite set of integers
RECURSIVE Sorted(_)
Sorted(S) ==
    IF S = {} THEN <<>>
    ELSE LET m == CHOOSE x \in S : \A y \in S : x <= y
         IN  <<m>> \o Sorted(S \ {m})

\* np.nonzero(vec)[0].tolist() for a vector over state indices 0..n-1
RECURSIVE NonZeroFrom(_, _, _)
NonZeroFrom(vec, j, n) ==
    IF j >= n THEN <<>>
    ELSE (IF vec[j] # 0 THEN <<j>> ELSE <<>>) \o NonZeroFrom(vec, j + 1, n)

NonZero(vec, n) == NonZeroFrom(vec, 0, n)

\* ------------------------------------------------------- states and options
Directions == {"both", "fwd", "back"}

NumOptions == Len(options)

\* ObjectList.set_indexes: item.dec_val = 2**idx
dec_val(opt) == Pow2(opt)

\* gmcrUtil.dec2yn: the Yes/No pattern of a decimal state, option k at position k
dec2yn(dec, n) == [k \in 1..n |-> IF (dec \div Pow2(k - 1)) % 2 = 1 THEN "Y" ELSE "N"]

\* Condition.test: every option the condition names has the value it names
ConditionTest(cond, dec) ==
    LET state == dec2yn(dec, Len(cond))
    IN  \A k \in 1..Len(cond) : cond[k] = "-" \/ state[k] = cond[k]

\* ConflictModel.recalculateFeasibleStates with FeasibleList: the states that
\* satisfy no infeasible condition, sorted by decimal value
FeasibleList(nOpt, infeas) ==
    Sorted({d \in 0..(Pow2(nOpt) - 1) :
               \A k \in 1..Len(infeas) : ~ConditionTest(infeas[k], d)})

NumStates == Len(feasibles)

States == 0..(NumStates - 1)

\* feasibles.yn[idx]
FeasiblesYN(idx) == dec2yn(At(feasibles, idx), NumOptions)

\* feasibles.toOrdered (gmcrUtil.orderedNumbers): decimal -> 1-based ordered number
toOrdered(dec) == IndexOf(feasibles, dec) + 1

\* feasibles.ordered
FeasiblesOrdered == [k \in 1..NumStates |-> k]

\* ------------------------------------------------------------------ parties
\* a DecisionMaker used as a party (an entry of the coalition list that is the
\* DecisionMaker object itself)
DMParty(d) == [isCoalition |-> FALSE, members |-> <<d>>]

\* Coalition(conflict, dms)
CoalitionParty(dms) == [isCoalition |-> TRUE, members |-> dms]

\* OptionList.append applied to each item of a list: items already held are skipped
RECURSIVE AppendAll(_, _)
AppendAll(acc, items) ==
    IF items = <<>> THEN acc
    ELSE AppendAll(IF Contains(acc, Head(items)) THEN acc ELSE Append(acc, Head(items)),
                   Tail(items))

RECURSIVE MemberOptions(_, _)
MemberOptions(acc, members) ==
    IF members = <<>> THEN acc
    ELSE MemberOptions(AppendAll(acc, decisionMakers[Head(members)].options), Tail(members))

\* dm.options of a party: a DecisionMaker's own list, or Coalition.refresh's union
PartyOptions(party) ==
    IF party.isCoalition THEN MemberOptions(<<>>, party.members)
    ELSE decisionMakers[party.members[1]].options

\* the comparison otherDM != dm of two entries of effectiveDMs (object identity)
SameParty(eff, p, q) ==
    \/ p = q
    \/ /\ ~eff[p].isCoalition
       /\ ~eff[q].isCoalition
       /\ eff[p].members = eff[q].members

\* -------------------------------------------------------------- preferences
\* DecisionMaker.weightPreferences: weight = 2**(len(preferences)-idx-1)
weightPreferences(prefs) == [k \in 1..Len(prefs) |-> Pow2(Len(prefs) - k)]

\* gmcrUtil.prefPriorities2payoffs: each condition a state satisfies adds its weight
prefPriorities2payoffs(prefs, feas) ==
    [s \in 1..Len(feas) |->
        SumSeq([k \in 1..Len(prefs) |->
                   IF ConditionTest(prefs[k], feas[s])
                   THEN weightPreferences(prefs)[k] ELSE 0])]

\* the payoffs a ranking gives n states: "payoffs = [0] * n", then for the i-th
\* entry (from 0) "payoffs[z - 1] = n - i" for each state z of the entry. An entry
\* of a ranking is a state or a list of tied states: it is kept as the sequence
\* of its states, a state on its own being a sequence of one.
RankPayoffs(ranking, n) ==
    [s \in 1..n |->
        LET at == {i \in 1..Len(ranking) : Contains(ranking[i], s)}
        IN  IF at = {} THEN 0
            ELSE n - ((CHOOSE i \in at : \A j \in at : j <= i) - 1)]

\* gmcrUtil.mapPrefRank2Payoffs(preferenceRanking, feasibles)
mapPrefRank2Payoffs(ranking, feas) == RankPayoffs(ranking, Len(feas))

\* the ranking prefPriorities2payoffs returns with the payoffs (result[1]): the
\* states in order of payoff, the highest first, states of equal payoff tied
RankingOf(pay) ==
    LET levels == Sorted({0 - pay[s] : s \in 1..Len(pay)})
    IN  [i \in 1..Len(levels) |-> Sorted({s \in 1..Len(pay) : 0 - pay[s] = levels[i]})]

\* DecisionMaker.calculatePreferences with the priority-ranked conditions in force
calculatePreferences(d) == prefPriorities2payoffs(decisionMakers[d].preferences, feasibles)

\* dm.payoffs after DecisionMaker.calculatePreferences
CalculatedPayoffs(d) ==
    IF useManualPreferenceRanking
    THEN mapPrefRank2Payoffs(preferenceRanking[d], feasibles)
    ELSE calculatePreferences(d)

\* PayoffMatrix with the difference taken the other way round, payoff[i] - payoff[j]
PayoffMatrix_Swapped(party, pay) ==
    IF party.isCoalition
    THEN [i \in States |-> [j \in States |->
             IF \A k \in 1..Len(party.members) :
                    At(pay[party.members[k]], i) - At(pay[party.members[k]], j) > 0
             THEN 1 ELSE 0]]
    ELSE [i \in States |-> [j \in States |->
             At(pay[party.members[1]], i) - At(pay[party.members[1]], j)]]

\* PayoffMatrix with .any(axis=2) in place of .all(axis=2) for a coalition
PayoffMatrix_AnyMember(party, pay) ==
    IF party.isCoalition
    THEN [i \in States |-> [j \in States |->
             IF \E k \in 1..Len(party.members) :
                    At(pay[party.members[k]], j) - At(pay[party.members[k]], i) > 0
             THEN 1 ELSE 0]]
    ELSE [i \in States |-> [j \in States |->
             At(pay[party.members[1]], j) - At(pay[party.members[1]], i)]]

\* dm.payoffMatrix of a party, from the members' payoffs
PayoffMatrix(party, pay) ==
    IF party.isCoalition
    THEN [i \in States |-> [j \in States |->
             IF \A k \in 1..Len(party.members) :
                    At(pay[party.members[k]], j) - At(pay[party.members[k]], i) > 0
             THEN 1 ELSE 0]]
    ELSE [i \in States |-> [j \in States |->
             At(pay[party.members[1]], j) - At(pay[party.members[1]], i)]]

\* ------------------------------------------------------------- reachability
\* x = [y + z for y in x for z in [0, val]]
Double(x, val) ==
    [k \in 1..(2 * Len(x)) |-> x[(k + 1) \div 2] + (IF k % 2 = 1 THEN 0 ELSE val)]

\* x = [0]; for val in moves: x = [y + z for y in x for z in [0, val]]
RECURSIVE Expand(_, _)
Expand(x, moves) ==
    IF moves = <<>> THEN x ELSE Expand(Double(x, Head(moves)), Tail(moves))

RECURSIVE OtherMoves(_, _, _)
OtherMoves(eff, p, q) ==
    IF q > Len(eff) THEN <<>>
    ELSE (IF SameParty(eff, p, q) THEN <<>>
          ELSE [k \in 1..Len(PartyOptions(eff[q])) |-> dec_val(PartyOptions(eff[q])[k])])
         \o OtherMoves(eff, p, q + 1)

\* option.dec_val of every option of every other effective party
otherCOsMoves(eff, p) == OtherMoves(eff, p, 1)

\* option.dec_val of every option of the focal party
focalCOmoves(eff, p) ==
    [k \in 1..Len(PartyOptions(eff[p])) |-> dec_val(PartyOptions(eff[p])[k])]

fixedStates(eff, p) == Expand(<<0>>, otherCOsMoves(eff, p))

\* manipulatedStates with the focal party's last option left out
manipulatedStates_LastOptionLeftOut(eff, p) ==
    LET moves == focalCOmoves(eff, p)
    IN  Expand(<<0>>, IF moves = <<>> THEN <<>> ELSE SubSeq(moves, 1, Len(moves) - 1))

manipulatedStates(eff, p) == Expand(<<0>>, focalCOmoves(eff, p))

\* the feasible states among state + z, as 0-based state indices
ReachableSet(state, manip) ==
    {toOrdered(y) - 1 : y \in {state + manip[k] : k \in 1..Len(manip)} \cap Range(feasibles)}

\* MutuallyReachable without the test "if s0 != s1"
MutuallyReachable_NoDistinctTest(S, s0, s1) == s0 \in S /\ s1 \in S

\* the test under which dm.reachability[s0, s1] is set for one reachable set
MutuallyReachable(S, s0, s1) == s0 \in S /\ s1 \in S /\ s0 # s1

\* the loop "for state in fixedStates": an entry is set when some fixed state's
\* reachable set holds both states
AddReachableSets(R, fixed, manip) ==
    CHOOSE M \in {[s0 \in States |-> [s1 \in States |->
                     IF \E S \in sets : MutuallyReachable(S, s0, s1) THEN 1 ELSE R[s0][s1]]] :
                  sets \in {{ReachableSet(fixed[k], manip) : k \in 1..Len(fixed)}}} : TRUE

\* IrreversibleFrom with the two directions exchanged
IrreversibleFrom_Exchanged(dir, val0) ==
    (val0 = "N" /\ dir = "fwd") \/ (val0 = "Y" /\ dir = "back")

\* whether an option in value val0 may not change, given its permitted direction
IrreversibleFrom(dir, val0) ==
    (val0 = "Y" /\ dir = "fwd") \/ (val0 = "N" /\ dir = "back")

\* "Remove irreversible states": zero every move against a permitted direction
RemoveIrreversible(R) ==
    LET yn == [idx \in States |-> FeasiblesYN(idx)]
        irreversible == {k \in 1..NumOptions : options[k] # "both"}
    IN  [idx0 \in States |-> [idx1 \in States |->
            IF \E k \in irreversible :
                   /\ IrreversibleFrom(options[k], yn[idx0][k])
                   /\ yn[idx0][k] # yn[idx1][k]
            THEN 0 ELSE R[idx0][idx1]]]

\* dm.perceived.ordered: the states the party perceives; the data model has no
\* misperceived states, so every feasible state is perceived
perceived(party) == Range(FeasiblesOrdered)

\* "Remove moves to or from misperceived states"
RemoveMisperceived(R, party) ==
    LET misperceived == {state \in Range(FeasiblesOrdered) : state \notin perceived(party)}
    IN  [i \in States |-> [j \in States |->
            IF \E state \in misperceived : j = state - 1 \/ i = state - 1
            THEN 0 ELSE R[i][j]]]

\* dm.reachability as RMGenerator.__init__ leaves it
Reachability(eff, p) ==
    RemoveMisperceived(
        RemoveIrreversible(
            AddReachableSets([i \in States |-> [j \in States |-> 0]],
                             fixedStates(eff, p), manipulatedStates(eff, p))),
        eff[p])

\* ------------------------------------------------------- RMGenerator queries
\* refState is None, or a state index: an optional value is <<>> or <<x>>
None == <<>>

\* RMGenerator.reachable(dm, stateIdx)
reachable(p, stateIdx) == NonZero(reachability[p][stateIdx], NumStates)

\* RMGenerator.UIs(dm, stateIdx, refState)
UIs(p, stateIdx, ref) ==
    LET refState == IF ref = None THEN stateIdx ELSE ref[1]
    IN  NonZero([j \in States |->
                    IF reachability[p][stateIdx][j] * payoffMatrix[p][refState][j] > 0
                    THEN 1 ELSE 0],
                NumStates)

\* ------------------------------------------------------------ LogicalSolver
\* [d for d in dms if d is not dm], over positions in effectiveDMs
RECURSIVE Without(_, _)
Without(dms, dm) ==
    IF dms = <<>> THEN <<>>
    ELSE (IF SameParty(effectiveDMs, Head(dms), dm) THEN <<>> ELSE <<Head(dms)>>)
         \o Without(Tail(dms), dm)

AllParties == [k \in 1..Len(effectiveDMs) |-> k]

\* LogicalSolver.checkCountermoves(dm, state0, state2)
checkCountermoves(dm, state0, state2) ==
    LET uis == UIs(dm, state2, None)
    IN  \E k \in 1..Len(uis) : payoffMatrix[dm][state0][uis[k]] > 0

NoSanction == [sanc |-> FALSE, to |-> None]

\* LogicalSolver.checkSanctions(focalDM, otherDMs, state0, state1, uiOnly, countermove),
\* returning (sanctioned, state sanctioned to); the narration is left out.
\* SanctionByDMs is the loop "for dm in otherDMs" from the entries `rest` on,
\* SanctionByMoves the loop "for state2 in moves" of one dm.
RECURSIVE checkSanctions(_, _, _, _, _, _)
RECURSIVE SanctionByDMs(_, _, _, _, _, _, _)
RECURSIVE SanctionByMoves(_, _, _, _, _, _, _)
SanctionByMoves(focalDM, otherDMs, dm, moves, state0, uiOnly, countermove) ==
    IF moves = <<>> THEN NoSanction
    ELSE LET state2 == Head(moves)
         IN  IF /\ payoffMatrix[focalDM][state0][state2] <= 0
                /\ ~(countermove /\ checkCountermoves(focalDM, state0, state2))
             THEN [sanc |-> TRUE, to |-> <<state2>>]
             ELSE LET sub == checkSanctions(focalDM, Without(otherDMs, dm), state0,
                                            state2, uiOnly, countermove)
                  IN  IF sub.sanc THEN sub
                      ELSE SanctionByMoves(focalDM, otherDMs, dm, Tail(moves), state0,
                                           uiOnly, countermove)

SanctionByDMs(focalDM, otherDMs, rest, state0, state1, uiOnly, countermove) ==
    IF rest = <<>> THEN NoSanction
    ELSE LET dm == Head(rest)
             moves == IF uiOnly THEN UIs(dm, state1, None) ELSE reachable(dm, state1)
             found == SanctionByMoves(focalDM, otherDMs, dm, moves, state0, uiOnly,
                                      countermove)
         IN  IF found.sanc THEN found
             ELSE SanctionByDMs(focalDM, otherDMs, Tail(rest), state0, state1, uiOnly,
                                countermove)

checkSanctions(focalDM, otherDMs, state0, state1, uiOnly, countermove) ==
    SanctionByDMs(focalDM, otherDMs, otherDMs, state0, state1, uiOnly, countermove)

\* "oDMs = [d for d in otherDMs if d is not dm]" with the moving opponent staying
\* in the list
RemainingDMs_MoverStays(otherDMs, dm) == otherDMs

\* "oDMs = [d for d in otherDMs if d is not dm]": the parties a recursive call of
\* checkSanctions is made with
RemainingDMs(otherDMs, dm) == Without(otherDMs, dm)

\* the larger of two call levels
Deeper(a, b) == IF a >= b THEN a ELSE b

\* the calls an evaluation of checkSanctions makes: the same loops with the same
\* returns, each call knowing its level (0 for the call seq, gmr or smr makes)
\* and the opponents that moved before it, and returning with (sanctioned, state
\* sanctioned to) the deepest level a call was made at and whether every chain
\* of moves followed had each opponent move once at most. A call at a level
\* past the number of parties is recorded and followed no further.
RECURSIVE CallsOfCheckSanctions(_, _, _, _, _, _, _, _)
RECURSIVE CallsByDMs(_, _, _, _, _, _, _, _, _, _)
RECURSIVE CallsByMoves(_, _, _, _, _, _, _, _, _, _)
CallsByMoves(focalDM, otherDMs, dm, moves, state0, uiOnly, countermove, level, movers, sofar) ==
    IF moves = <<>> THEN sofar
    ELSE LET state2 == Head(moves)
         IN  IF /\ payoffMatrix[focalDM][state0][state2] <= 0
                /\ ~(countermove /\ checkCountermoves(focalDM, state0, state2))
             THEN [sofar EXCEPT !.sanc = TRUE, !.to = <<state2>>]
             ELSE LET sub == CallsOfCheckSanctions(focalDM, RemainingDMs(otherDMs, dm),
                                                   state0, state2, uiOnly, countermove,
                                                   level + 1, Append(movers, dm))
                      seen == [sanc |-> sub.sanc, to |-> sub.to,
                               depth |-> Deeper(sofar.depth, sub.depth),
                               once |-> sofar.once /\ sub.once]
                  IN  IF sub.sanc THEN seen
                      ELSE CallsByMoves(focalDM, otherDMs, dm, Tail(moves), state0,
                                        uiOnly, countermove, level, movers, seen)

CallsByDMs(focalDM, otherDMs, rest, state0, state1, uiOnly, countermove, level, movers, sofar) ==
    IF rest = <<>> THEN sofar
    ELSE LET dm == Head(rest)
             moves == IF uiOnly THEN UIs(dm, state1, None) ELSE reachable(dm, state1)
             found == CallsByMoves(focalDM, otherDMs, dm, moves, state0, uiOnly,
                                   countermove, level, movers,
                                   [sofar EXCEPT !.once =
                                        @ /\ (moves = <<>> \/ ~Contains(movers, dm))])
         IN  IF found.sanc THEN found
             ELSE CallsByDMs(focalDM, otherDMs, Tail(rest), state0, state1, uiOnly,
                             countermove, level, movers, found)

CallsOfCheckSanctions(focalDM, otherDMs, state0, state1, uiOnly, countermove, level, movers) ==
    LET here == [sanc |-> FALSE, to |-> None, depth |-> level, once |-> TRUE]
    IN  IF level > Len(effectiveDMs) THEN here
        ELSE CallsByDMs(focalDM, otherDMs, otherDMs, state0, state1, uiOnly,
                        countermove, level, movers, here)

\* nash answering True where the party has UIs
nash_StableWithUIs(dm, state0) == UIs(dm, state0, None) # <<>>

\* LogicalSolver.nash(dm, state0)[0]
nash(dm, state0) == UIs(dm, state0, None) = <<>>

\* the loop "for state1 in ui" of seq, gmr and smr: False at the first UI that
\* is not sanctioned, True when the loop runs out
RECURSIVE EveryUISanctioned(_, _, _, _, _)
EveryUISanctioned(dm, ui, state0, uiOnly, countermove) ==
    IF ui = <<>> THEN TRUE
    ELSE IF checkSanctions(dm, Without(AllParties, dm), state0, Head(ui), uiOnly,
                           countermove).sanc
         THEN EveryUISanctioned(dm, Tail(ui), state0, uiOnly, countermove)
         ELSE FALSE

\* seq calling checkSanctions without uiOnly=True
seq_AnyMoveSanctions(dm, state0) ==
    LET ui == UIs(dm, state0, None)
    IN  IF ui = <<>> THEN TRUE ELSE EveryUISanctioned(dm, ui, state0, FALSE, FALSE)

\* LogicalSolver.seq(dm, state0)[0]
seq(dm, state0) ==
    LET ui == UIs(dm, state0, None)
    IN  IF ui = <<>> THEN TRUE ELSE EveryUISanctioned(dm, ui, state0, TRUE, FALSE)

\* gmr calling checkSanctions with uiOnly=True
gmr_UIOnly(dm, state0) ==
    LET ui == UIs(dm, state0, None)
    IN  IF ui = <<>> THEN TRUE ELSE EveryUISanctioned(dm, ui, state0, TRUE, FALSE)

\* LogicalSolver.gmr(dm, state0)[0]
gmr(dm, state0) ==
    LET ui == UIs(dm, state0, None)
    IN  IF ui = <<>> THEN TRUE ELSE EveryUISanctioned(dm, ui, state0, FALSE, FALSE)

\* LogicalSolver.smr(dm, state0)[0]
smr(dm, state0) ==
    LET ui == UIs(dm, state0, None)
    IN  IF ui = <<>> THEN TRUE ELSE EveryUISanctioned(dm, ui, state0, FALSE, TRUE)

\* itertools.product(*lists) as the list of its tuples, in the order it yields them
RECURSIVE Product(_)
Product(lists) ==
    IF lists = <<>> THEN << <<>> >>
    ELSE LET hd == Head(lists)
             tl == Product(Tail(lists))
         IN  [k \in 1..(Len(hd) * Len(tl)) |->
                 <<hd[((k - 1) \div Len(tl)) + 1]>> \o tl[((k - 1) % Len(tl)) + 1]]

\* otherDMuis of sim: for each other party, [0] + its UIs from state0 as decimal moves
otherDMuis(dm, state0) ==
    LET others == Without(AllParties, dm)
    IN  [k \in 1..Len(others) |->
            LET uis == UIs(others[k], state0, None)
            IN  <<0>> \o [i \in 1..Len(uis) |-> At(feasibles, uis[i]) - At(feasibles, state0)]]

\* the loop "for moveset in otherDMmovesets" of sim for one state1, drawing from
\* what is left of the iterator: (sanctioned, what is left after the loop)
RECURSIVE ScanMovesets(_, _, _, _)
ScanMovesets(dm, state0, state1, movesets) ==
    IF movesets = <<>> THEN [sanctioned |-> FALSE, left |-> <<>>]
    ELSE LET state2combinedDec == At(feasibles, state1) + SumSeq(Head(movesets))
         IN  IF ~Contains(feasibles, state2combinedDec)
             THEN ScanMovesets(dm, state0, state1, Tail(movesets))
             ELSE IF payoffMatrix[dm][state0][IndexOf(feasibles, state2combinedDec)] <= 0
                  THEN [sanctioned |-> TRUE, left |-> Tail(movesets)]
                  ELSE ScanMovesets(dm, state0, state1, Tail(movesets))

\* the loop "for state1 in ui" of sim; otherDMmovesets is one iterator, made once
\* before the loop, so each state1 draws from what the earlier ones left
RECURSIVE SimLoop(_, _, _, _)
SimLoop(dm, state0, ui, otherDMmovesets) ==
    IF ui = <<>> THEN TRUE
    ELSE LET scan == ScanMovesets(dm, state0, Head(ui), otherDMmovesets)
         IN  IF scan.sanctioned THEN SimLoop(dm, state0, Tail(ui), scan.left) ELSE FALSE

\* LogicalSolver.sim(dm, state0)[0]
sim(dm, state0) ==
    LET ui == UIs(dm, state0, None)
    IN  IF ui = <<>> THEN TRUE
        ELSE SimLoop(dm, state0, ui, Product(otherDMuis(dm, state0)))

Concepts == {"nash", "gmr", "seq", "sim", "smr"}

\* self.<concept>(dm, state)[0]
Stable(concept, dm, state) ==
    CASE concept = "nash" -> nash(dm, state)
      [] concept = "gmr" -> gmr(dm, state)
      [] concept = "seq" -> seq(dm, state)
      [] concept = "sim" -> sim(dm, state)
      [] concept = "smr" -> smr(dm, state)

\* the table xStabilities[idx, state] = self.x(dm, state)[0], a float array
StabilityTable(concept) ==
    [idx \in 1..Len(effectiveDMs) |->
        [state \in States |-> IF Stable(concept, idx, state) THEN 1 ELSE 0]]

\* np.invert(x.astype('bool')) of one entry
Invert(x) == IF x # 0 THEN 0 ELSE 1

\* np.invert(xStabilities.astype('bool'), xStabilities)
InvertTable(table) ==
    [idx \in DOMAIN table |-> [state \in DOMAIN table[idx] |-> Invert(table[idx][state])]]

\* sum(table, 0): the column sums
ColumnSum(table) ==
    [state \in States |-> SumSeq([idx \in 1..Len(table) |-> table[idx][state]])]

\* Equilibria without the outer np.invert
Equilibria_NotInverted(inverted) ==
    LET sums == ColumnSum(inverted)
    IN  [state \in States |-> sums[state] # 0]

\* self.xEquilibria = np.invert(sum(xStabilities, 0).astype('bool'))
Equilibria(inverted) ==
    LET sums == ColumnSum(inverted)
    IN  [state \in States |-> Invert(sums[state]) = 1]

\* ------------------------------------------------------------------ actions
NoCall == [op |-> "none", dm |-> 0, state |-> 0, ref |-> None]

\* the parties a solver works on: RMGenerator.__init__, "if useCoalitions"
DefaultCoalitions == [d \in 1..Len(decisionMakers) |-> DMParty(d)]

FilledCoalitions == IF Len(coalitions) = 0 THEN DefaultCoalitions ELSE coalitions

\* the decision makers whose payoffs "for dm in self.effectiveDMs:
\* dm.calculatePreferences()" calculates
Calculated(eff) == UNION {Range(eff[p].members) : p \in 1..Len(eff)}

\* A FeasibleList made of no pattern has the attributes decimal and dash only:
\* with no feasible state the first pass of "for dm in self.effectiveDMs" raises
\* AttributeError at conflict.feasibles.ordered (at conflict.feasibles.yn when an
\* option is irreversible). With no party the loop body never runs.
ConstructionRaises(eff) == NumStates = 0 /\ Len(eff) > 0

\* RMGenerator.__init__(conflict, useCoalitions) (LogicalSolver.__init__ passes True;
\* InverseSolver.__init__ passes False and goes on).
\* One solver is constructed per loaded conflict: constructing a second one is
\* constructing the first on a conflict whose coalition list is already filled,
\* which is an initial state. When the constructor raises there is no solver
\* (pc "raised", no parties, no matrices); the coalition list was filled before.
RMGeneratorInit(useCoalitions) ==
    /\ pc = "model"
    /\ coalitions' = IF useCoalitions THEN FilledCoalitions ELSE coalitions
    /\ IF ConstructionRaises(IF useCoalitions THEN FilledCoalitions ELSE DefaultCoalitions)
       THEN /\ pc' = "raised"
            /\ effectiveDMs' = <<>>
            /\ payoffMatrix' = <<>>
            /\ reachability' = <<>>
            /\ UNCHANGED <<payoffs, preferenceRanking>>
       ELSE /\ pc' = "built"
            /\ effectiveDMs' = IF useCoalitions THEN FilledCoalitions ELSE DefaultCoalitions
            /\ payoffs' = [d \in 1..Len(decisionMakers) |->
                              IF d \in Calculated(effectiveDMs')
                              THEN CalculatedPayoffs(d) ELSE payoffs[d]]
            /\ preferenceRanking' =
                   [d \in 1..Len(decisionMakers) |->
                       IF d \in Calculated(effectiveDMs') /\ ~useManualPreferenceRanking
                       THEN RankingOf(payoffs'[d]) ELSE preferenceRanking[d]]
            /\ payoffMatrix' = [p \in 1..Len(effectiveDMs') |->
                                   PayoffMatrix(effectiveDMs'[p], payoffs')]
            /\ reachability' = [p \in 1..Len(effectiveDMs') |->
                                   Reachability(effectiveDMs', p)]
    /\ call' = NoCall
    /\ ret' = <<>>
    /\ stabilities' = <<>>
    /\ equilibria' = <<>>
    /\ UNCHANGED <<conflictVars, useManualPreferenceRanking>>

\* the construction of an RMGenerator or a LogicalSolver
Construct(useCoalitions) ==
    /\ RMGeneratorInit(useCoalitions)
    /\ UNCHANGED otherVars

Built == pc \in {"built", "solved"}

\* A query reads the matrices and changes nothing of the solver, so every query
\* result is one step away from the state construction left: queries are taken
\* from there.
NoCallYet == call.op = "none"

\* a call of RMGenerator.reachable(dm, stateIdx) with an effective party
ReachableCall(p, stateIdx) ==
    /\ Built
    /\ NoCallYet
    /\ call' = [op |-> "reachable", dm |-> p, state |-> stateIdx, ref |-> None]
    /\ ret' = reachable(p, stateIdx)
    /\ UNCHANGED <<conflictVars, coalitions, payoffs, effectiveDMs, reachability,
                   payoffMatrix, pc, stabilities, equilibria, rankingVars, otherVars>>

\* position of a party object in self.effectiveDMs, 0 when it is not in the list
PositionOf(party) ==
    IF \E k \in 1..Len(effectiveDMs) : effectiveDMs[k] = party
    THEN CHOOSE k \in 1..Len(effectiveDMs) : effectiveDMs[k] = party
    ELSE 0

\* numpy row indexing: an index in -N..-1 counts from the end, an index outside
\* -N..N-1 raises IndexError
InBounds(stateIdx) == stateIdx \in (0 - NumStates)..(NumStates - 1)

Wrapped(stateIdx) == IF stateIdx < 0 THEN stateIdx + NumStates ELSE stateIdx

Raised(error) == [raised |-> error, value |-> None]

Returned(value) == [raised |-> "", value |-> value]

\* what reachable, UIs (refState None) or nash gives for any party object and
\* any integer: ValueError for a party not in effectiveDMs, else numpy's indexing
QueryResult(op, party, stateIdx) ==
    IF PositionOf(party) = 0 THEN Raised("ValueError")
    ELSE IF ~InBounds(stateIdx) THEN Raised("IndexError")
    ELSE IF op = "reachable" THEN Returned(reachable(PositionOf(party), Wrapped(stateIdx)))
    ELSE IF op = "UIs" THEN Returned(UIs(PositionOf(party), Wrapped(stateIdx), None))
    ELSE Returned(nash(PositionOf(party), Wrapped(stateIdx)))

\* a call of reachable, UIs or nash with any party object and any integer
Query(op, party, stateIdx) ==
    /\ pc = "built"
    /\ NoCallYet
    /\ call' = [op |-> op, dm |-> party, state |-> stateIdx, ref |-> None]
    /\ ret' = QueryResult(op, party, stateIdx)
    /\ UNCHANGED <<conflictVars, coalitions, payoffs, effectiveDMs, reachability,
                   payoffMatrix, pc, stabilities, equilibria, rankingVars, otherVars>>

\* seqSimStabilities, from the tables as the SEQ and SIM sections left them
SeqSimStabilities(simTable, seqTable) ==
    [idx \in DOMAIN simTable |->
        [state \in DOMAIN simTable[idx] |->
            IF simTable[idx][state] # 0 /\ seqTable[idx][state] # 0 THEN 1 ELSE 0]]

\* LogicalSolver.findEquilibria(); a LogicalSolver's parties are the coalition list
FindEquilibria ==
    /\ pc = "built"
    /\ effectiveDMs = coalitions
    /\ stabilities' = [nash |-> StabilityTable("nash"), gmr |-> StabilityTable("gmr"),
                       seq |-> StabilityTable("seq"), sim |-> StabilityTable("sim"),
                       smr |-> StabilityTable("smr")]
    /\ equilibria' =
           [nash |-> Equilibria(InvertTable(stabilities'.nash)),
            gmr |-> Equilibria(InvertTable(stabilities'.gmr)),
            seq |-> Equilibria(InvertTable(stabilities'.seq)),
            sim |-> Equilibria(InvertTable(stabilities'.sim)),
            seqSim |-> Equilibria(SeqSimStabilities(InvertTable(stabilities'.sim),
                                                    InvertTable(stabilities'.seq))),
            smr |-> Equilibria(InvertTable(stabilities'.smr))]
    /\ pc' = "solved"
    /\ UNCHANGED <<conflictVars, coalitions, payoffs, effectiveDMs, reachability,
                   payoffMatrix, call, ret, rankingVars, otherVars>>

\* ------------------------------------------------------------ initial states
\* conditions in Yes/No/Dash notation over n options
Patterns(n) == [1..n -> {"Y", "N", "-"}]

\* the options decision maker d controls, in master order, given each option's owners
Controlled(own, d) == Sorted({k - 1 : k \in {j \in DOMAIN own : d \in own[j]}})

\* coalition lists over m decision makers: none yet, one entry per decision maker,
\* or one coalition of two or more with the rest on their own
CoalitionLists(m) ==
    {<<>>, [d \in 1..m |-> DMParty(d)]}
    \cup {<<CoalitionParty(Sorted(c))>>
              \o [k \in 1..(m - Cardinality(c)) |-> DMParty(Sorted((1..m) \ c)[k])] :
          c \in {x \in SUBSET (1..m) : Cardinality(x) >= 2}}

\* no object but the conflict and its solver exists
NoOtherObjects ==
    /\ inverseSolver = None
    /\ lessThans = {}
    /\ preferenceErrors = None
    /\ errorDetails = <<>>
    /\ refs = <<>>
    /\ optionItems = <<>>
    /\ dmOptionItems = <<>>
    /\ dmItems = <<>>
    /\ coalitionItems = <<>>

\* a conflict as loaded: options with directions dirs, option k owned by own[k],
\* infeasible conditions infeas, preferences prefs[d], coalition list coal
Loaded(dirs, own, infeas, prefs, coal) ==
    /\ options = dirs
    /\ decisionMakers = [d \in DOMAIN prefs |->
                            [options |-> Controlled(own, d), preferences |-> prefs[d]]]
    /\ infeasibles = infeas
    /\ feasibles = FeasibleList(Len(dirs), infeas)
    /\ coalitions = coal
    /\ payoffs = [d \in DOMAIN prefs |-> <<>>]
    /\ effectiveDMs = <<>>
    /\ reachability = <<>>
    /\ payoffMatrix = <<>>
    /\ pc = "model"
    /\ call = NoCall
    /\ ret = <<>>
    /\ stabilities = <<>>
    /\ equilibria = <<>>
    /\ preferenceRanking = [d \in DOMAIN prefs |-> <<>>]
    /\ useManualPreferenceRanking = FALSE
    /\ NoOtherObjects

\* conflicts of every structure: shared options, irreversible options, an
\* infeasible condition, coalitions; no preferences entered
Init ==
    \E n \in 1..MaxOptions, m \in 1..MaxDMs :
      \E dirs \in {x \in [1..n -> Directions] :
                       Cardinality({k \in 1..n : x[k] # "both"}) <= MaxIrreversible},
         own \in [1..n -> (SUBSET (1..m)) \ {{}}],
         infeas \in {<<>>} \cup {<<c>> : c \in Patterns(n)},
         coal \in CoalitionLists(m) :
        /\ FeasibleList(n, infeas) # <<>>
        /\ Loaded(dirs, own, infeas, [d \in 1..m |-> <<>>], coal)

\* preference conditions over n options that name between one and `named` options
PrefConditions(n, named) ==
    {c \in Patterns(n) : Cardinality({k \in 1..n : c[k] # "-"}) \in 1..named}

\* priority-ranked preference lists of conditions naming at most `named` options,
\* all different (ConditionList.append ignores a duplicate), of a length in lens
PrefLists(n, named, lens) ==
    UNION {{x \in [1..len -> PrefConditions(n, named)] :
                \A i \in 1..len, j \in 1..len : i # j => x[i] # x[j]} :
           len \in lens}

\* the ways n options are split among m decision makers, none shared and every
\* decision maker with an option, the decision makers taking consecutive blocks
\* in master order (ConflictModel.reorderOptionsByDM)
BlockSplits(n, m) ==
    {own \in [1..n -> {{d} : d \in 1..m}] :
        /\ \A k \in 1..(n - 1) : \A d \in own[k], e \in own[k + 1] : d <= e
        /\ \A d \in 1..m : \E k \in 1..n : d \in own[k]}

\* conditions that make one full state infeasible
FullStates(n) == [1..n -> {"Y", "N"}]

\* the first two decision makers in coalition, the rest on their own
SolveCoalition(m) == <<CoalitionParty(<<1, 2>>)>> \o [k \in 1..(m - 2) |-> DMParty(k + 2)]

\* conflicts for the stability solver, MaxOptions reversible options, none
\* shared: two decision makers on their own, with or without one infeasible state
InitSolveTwo ==
    \E own \in BlockSplits(MaxOptions, 2),
       prefs \in [1..2 -> PrefLists(MaxOptions, MaxNamed, 0..MaxPrefs)],
       infeas \in {<<>>} \cup {<<c>> : c \in FullStates(MaxOptions)} :
      Loaded([k \in 1..MaxOptions |-> "both"], own, infeas, prefs, <<>>)

\* ... three decision makers on their own, every state feasible
InitSolveThree ==
    \E own \in BlockSplits(MaxOptions, 3),
       prefs \in [1..3 -> PrefLists(MaxOptions, MaxNamed, 0..MaxPrefs)] :
      Loaded([k \in 1..MaxOptions |-> "both"], own, <<>>, prefs, <<>>)

\* ... and three decision makers, the first two in coalition, the second with
\* MaxRanked ranked conditions, the others with conditions on one option
InitSolveCoalition ==
    \E own \in BlockSplits(MaxOptions, 3),
       first \in PrefLists(MaxOptions, 1, 0..MaxPrefs),
       second \in PrefLists(MaxOptions, MaxNamed, {MaxRanked}),
       third \in PrefLists(MaxOptions, 1, 0..MaxPrefs) :
      Loaded([k \in 1..MaxOptions |-> "both"], own, <<>>,
             <<first, second, third>>, SolveCoalition(3))

InitSolve == InitSolveTwo \/ InitSolveThree \/ InitSolveCoalition

\* ConflictModel.__init__: a new, empty conflict
NewConflict ==
    /\ options = <<>>
    /\ decisionMakers = <<>>
    /\ infeasibles = <<>>
    /\ feasibles = <<>>
    /\ coalitions = <<>>
    /\ payoffs = <<>>
    /\ effectiveDMs = <<>>
    /\ reachability = <<>>
    /\ payoffMatrix = <<>>
    /\ pc = "model"
    /\ call = NoCall
    /\ ret = <<>>
    /\ stabilities = <<>>
    /\ equilibria = <<>>
    /\ preferenceRanking = <<>>
    /\ useManualPreferenceRanking = FALSE
    /\ NoOtherObjects

\* coalition lists that may leave decision makers out: the first k decision
\* makers on their own (the list a solver filled before further decision makers
\* were appended), or the coalition of the first two with or without the rest
OpenCoalitionLists(m) ==
    {[d \in 1..k |-> DMParty(d)] : k \in 0..m}
    \cup (IF m >= 2
          THEN {<<CoalitionParty(<<1, 2>>)>>, SolveCoalition(m)}
          ELSE {})

\* small conflicts of every shape: up to MaxEdgeOptions reversible options, each
\* with one owner, up to MaxEdgeDMs decision makers, no infeasible condition, one
\* infeasible state or every state infeasible, the first decision maker with or
\* without a preference, any coalition list
InitEdge ==
    \/ NewConflict
    \/ \E n \in 1..MaxEdgeOptions, m \in 1..MaxEdgeDMs :
         \E own \in [1..n -> {{d} : d \in 1..m}],
            infeas \in {<<>>, <<[k \in 1..n |-> "-"]>>} \cup {<<c>> : c \in FullStates(n)},
            first \in PrefLists(n, 1, 0..MaxPrefs),
            coal \in OpenCoalitionLists(m) :
           Loaded([k \in 1..n |-> "both"], own, infeas,
                  [d \in 1..m |-> IF d = 1 THEN first ELSE <<>>], coal)

\* the objects a caller may pass as a party: each decision maker, and the
\* coalition of the first two
PartyObjects ==
    {DMParty(d) : d \in 1..Len(decisionMakers)} \cup {CoalitionParty(<<1, 2>>)}

NextEdge ==
    \/ \E useCoalitions \in BOOLEAN : Construct(useCoalitions)
    \/ \E op \in {"reachable", "UIs", "nash"}, party \in PartyObjects,
          stateIdx \in (0 - NumStates - 1)..NumStates :
         Query(op, party, stateIdx)

SpecEdge == InitEdge /\ [][NextEdge]_vars

\* ------------------------------------------------------------ InverseSolver
\* a Python slice bound on a list of length n: negative bounds count from the
\* end, and every bound is clamped to 0..n
SliceBound(i, n) ==
    IF i < 0 THEN (IF i + n < 0 THEN 0 ELSE i + n)
    ELSE IF i > n THEN n ELSE i

\* full[a:b]
Slice(full, a, b) ==
    LET lo == SliceBound(a, Len(full))
        hi == SliceBound(b, Len(full))
    IN  IF lo >= hi THEN <<>> ELSE [k \in 1..(hi - lo) |-> full[lo + k]]

\* full[:a] and full[b:]
SliceTo(full, a) == Slice(full, 0, a)

SliceFrom(full, b) == Slice(full, b, Len(full))

\* items without its k-th element
Drop(items, k) == [j \in 1..(Len(items) - 1) |-> IF j < k THEN items[j] ELSE items[j + 1]]

RECURSIVE Concat(_)
Concat(lists) == IF lists = <<>> THEN <<>> ELSE Head(lists) \o Concat(Tail(lists))

\* itertools.permutations(items) as the list of its tuples, in the order it yields
\* them: by position, the first element running slowest
RECURSIVE permutations(_)
permutations(items) ==
    IF items = <<>> THEN << <<>> >>
    ELSE Concat([k \in 1..Len(items) |->
                    LET rest == permutations(Drop(items, k))
                    IN  [j \in 1..Len(rest) |-> <<items[k]>> \o rest[j]]])

\* decPerm that takes the tail of the ranking from vary[0] on
decPerm_TailFromSpanStart(full, vary) ==
    IF vary = <<>> THEN <<full>>
    ELSE LET perms == permutations(Slice(full, vary[1], vary[2]))
         IN  [k \in 1..Len(perms) |->
                 SliceTo(full, vary[1]) \o perms[k] \o SliceFrom(full, vary[1])]

\* InverseSolver._decPerm(full, vary) as the list of what it yields; vary is
\* <<>> (an empty list) or the pair <<vary[0], vary[1]>>
decPerm(full, vary) ==
    IF vary = <<>> THEN <<full>>
    ELSE LET perms == permutations(Slice(full, vary[1], vary[2]))
         IN  [k \in 1..Len(perms) |->
                 SliceTo(full, vary[1]) \o perms[k] \o SliceFrom(full, vary[2])]

\* InverseSolver.prefPermGen(prefRanks, vary) as the list of what it yields
prefPermGen(prefRanks, vary) ==
    Product([x \in 1..Len(prefRanks) |-> decPerm(prefRanks[x], vary[x])])

\* a call of prefPermGen, its arguments drawn when the state was set up
PrefPermGenCall ==
    /\ pc = "inverse"
    /\ call.op = "prefPermGen"
    /\ ret' = prefPermGen(call.prefRanks, call.vary)
    /\ pc' = "generated"
    /\ UNCHANGED <<conflictVars, coalitions, payoffs, effectiveDMs, reachability,
                   payoffMatrix, call, stabilities, equilibria, rankingVars, otherVars>>

\* the vary spans tried on a ranking of length n: an empty list, or any pair of
\* integers from one below the ranking to one past its length
VarySpans(n) == {<<>>} \cup {<<a, b>> : a \in (0 - 1)..(n + 1), b \in (0 - 1)..(n + 1)}

\* rankings of the states 1..n, none tied
Rankings(n) == Range(permutations([k \in 1..n |-> k]))

\* an InverseSolver about to generate its rankings: one ranking of the same
\* 1..MaxRanking states and one vary span per decision maker
InitInverse ==
    \E n \in 1..MaxRanking, m \in 1..MaxInverseDMs :
      \E prefRanks \in [1..m -> Rankings(n)], vary \in [1..m -> VarySpans(n)] :
        /\ call = [op |-> "prefPermGen", prefRanks |-> prefRanks, vary |-> vary]
        /\ pc = "inverse"
        /\ options = <<>>
        /\ decisionMakers = <<>>
        /\ infeasibles = <<>>
        /\ feasibles = <<>>
        /\ coalitions = <<>>
        /\ payoffs = <<>>
        /\ effectiveDMs = <<>>
        /\ reachability = <<>>
        /\ payoffMatrix = <<>>
        /\ ret = <<>>
        /\ stabilities = <<>>
        /\ equilibria = <<>>
        /\ preferenceRanking = <<>>
        /\ useManualPreferenceRanking = FALSE
        /\ NoOtherObjects

NextInverse == PrefPermGenCall

SpecInverse == InitInverse /\ [][NextInverse]_vars

\* ----------------------------------------- InverseSolver.findEquilibria, filter
MaxInverseStates == 5
MaxVaryWidth == 2

\* an InverseSolver's attributes before findEquilibria has run
NewInverseSolver(vary, desiredEquilibria) ==
    [desEq |-> desiredEquilibria, vary |-> vary, preferenceRankings |-> <<>>,
     nash |-> <<>>, gmr |-> <<>>, seq |-> <<>>, smr |-> <<>>, equilibriums |-> <<>>]

\* InverseSolver.__init__(conflict, vary, desiredEquilibria). dm.improvementsInv,
\* which only the narration methods nashCond, gmrCond and seqCond read, is left out.
ConstructInverse(vary, desiredEquilibria) ==
    /\ RMGeneratorInit(FALSE)
    /\ inverseSolver' = IF pc' = "built"
                        THEN NewInverseSolver(vary, desiredEquilibria) ELSE None
    /\ UNCHANGED <<lessThans, editorVars, objectVars>>

\* _mblInit: self.mustBeLowerNash[dm]
mustBeLowerNash(dm) == reachable(dm, inverseSolver.desEq)

\* _mblInit: the states the other decision makers reach from state1, decision
\* maker by decision maker
OthersReachable(dm, state1) ==
    Concat([dm2 \in 1..Len(decisionMakers) |->
               IF dm2 = dm THEN <<>> ELSE reachable(dm2, state1)])

\* _mblInit: self.mustBeLowerGMR[dm]
mustBeLowerGMR(dm) ==
    [z \in 1..Len(mustBeLowerNash(dm)) |-> OthersReachable(dm, mustBeLowerNash(dm)[z])]

\* _mblInit: self.mustBeLowerSMR[dm]
mustBeLowerSMR(dm) ==
    [z \in 1..Len(mustBeLowerNash(dm)) |->
        [i \in 1..Len(mustBeLowerGMR(dm)[z]) |-> reachable(dm, mustBeLowerGMR(dm)[z][i])]]

\* findEquilibria: the payoffs of one joint ranking
InversePayoffs(prefsX) == [dm \in 1..Len(prefsX) |-> RankPayoffs(prefsX[dm], NumStates)]

\* findEquilibria: mustBeLowerSEQ[dm], the moves of the others that improve for them
mustBeLowerSEQ(pay, dm) ==
    [z \in 1..Len(mustBeLowerNash(dm)) |->
        LET state1 == mustBeLowerNash(dm)[z]
        IN  Concat([dm2 \in 1..Len(decisionMakers) |->
                       IF dm2 = dm THEN <<>>
                       ELSE SelectSeq(reachable(dm2, state1),
                                      LAMBDA state2 : At(pay[dm2], state2) > At(pay[dm2], state1))])]

\* "check if Nash": no reachable state pays more than the target
InverseNash(pay, dm) ==
    ~\E z \in 1..Len(mustBeLowerNash(dm)) :
         At(pay[dm], inverseSolver.desEq) < At(pay[dm], mustBeLowerNash(dm)[z])

\* the flag the inner loop over the sanctions leaves for the UI at position z
SanctionFlag(concept, pay, dm, z) ==
    LET pay0 == At(pay[dm], inverseSolver.desEq)
        Lower(states) == {i \in 1..Len(states) : pay0 > At(pay[dm], states[i])}
    IN  CASE concept = "gmr" -> Lower(mustBeLowerGMR(dm)[z]) # {}
          [] concept = "seq" -> Lower(mustBeLowerSEQ(pay, dm)[z]) # {}
          [] concept = "smr" ->
                LET lower == Lower(mustBeLowerGMR(dm)[z])
                IN  /\ lower # {}
                    /\ LET first == CHOOSE i \in lower : \A j \in lower : i <= j
                           counter == mustBeLowerSMR(dm)[z][first]
                       IN  ~\E k \in 1..Len(counter) : pay0 < At(pay[dm], counter[k])

\* the loop "for state1p, state1d in enumerate(self.mustBeLowerNash[dm])" from
\* position z on: each UI sets the flag anew
RECURSIVE ScanUIs(_, _, _, _, _)
ScanUIs(concept, pay, dm, z, flag) ==
    IF z > Len(mustBeLowerNash(dm)) THEN flag
    ELSE IF At(pay[dm], inverseSolver.desEq) < At(pay[dm], mustBeLowerNash(dm)[z])
         THEN ScanUIs(concept, pay, dm, z + 1, SanctionFlag(concept, pay, dm, z))
         ELSE ScanUIs(concept, pay, dm, z + 1, flag)

\* self.<concept>[prefsIdx, dm] for the joint ranking prefsX
InverseFlag(concept, prefsX, dm) ==
    LET pay == InversePayoffs(prefsX)
    IN  IF concept = "nash" \/ InverseNash(pay, dm) THEN InverseNash(pay, dm)
        ELSE ScanUIs(concept, pay, dm, 1, FALSE)

\* one flag table: a row per joint ranking, a column per decision maker
FlagTable(concept, rankings) ==
    [idx \in 1..Len(rankings) |->
        [dm \in 1..Len(decisionMakers) |-> InverseFlag(concept, rankings[idx], dm)]]

\* table.all(axis=1)
AllAxis1(table) == [idx \in 1..Len(table) |-> \A dm \in 1..Len(table[idx]) : table[idx][dm]]

\* InverseSolver.findEquilibria()
InverseFindEquilibria ==
    /\ pc = "built"
    /\ inverseSolver # None
    /\ LET rankings == prefPermGen(preferenceRanking, inverseSolver.vary)
           nashT == FlagTable("nash", rankings)
           gmrT == FlagTable("gmr", rankings)
           seqT == FlagTable("seq", rankings)
           smrT == FlagTable("smr", rankings)
       IN  inverseSolver' =
               [inverseSolver EXCEPT !.preferenceRankings = rankings,
                                     !.nash = nashT, !.gmr = gmrT,
                                     !.seq = seqT, !.smr = smrT,
                                     !.equilibriums = <<AllAxis1(nashT), AllAxis1(seqT),
                                                        AllAxis1(gmrT), AllAxis1(smrT)>>]
    /\ pc' = "searched"
    /\ UNCHANGED <<conflictVars, coalitions, payoffs, effectiveDMs, reachability,
                   payoffMatrix, call, ret, stabilities, equilibria, rankingVars,
                   lessThans, editorVars, objectVars>>

\* the row of "Y" and "" that filter appends to a ranking
FlagMarks(eqms) == [c \in 1..Len(eqms) |-> IF eqms[c] THEN "Y" ELSE ""]

\* MeetsThresholds satisfied by one concept reaching its threshold
MeetsThresholds_AnyConcept(eqms, filt) ==
    \E c \in 1..Len(eqms) : (IF eqms[c] THEN 1 ELSE 0) >= filt[c]

\* np.greater_equal(eqms, filt).all(), a flag counting as 0 or 1
MeetsThresholds(eqms, filt) ==
    \A c \in 1..Len(eqms) : (IF eqms[c] THEN 1 ELSE 0) >= filt[c]

\* InverseSolver.filter(filt): (values, counts)
filter(filt) ==
    LET eqmsOf(pRanki) == [c \in 1..4 |-> inverseSolver.equilibriums[c][pRanki]]
        chosen == SelectSeq([k \in 1..Len(inverseSolver.preferenceRankings) |-> k],
                            LAMBDA pRanki : MeetsThresholds(eqmsOf(pRanki), filt))
    IN  [values |-> [k \in 1..Len(chosen) |->
                        [ranking |-> inverseSolver.preferenceRankings[chosen[k]],
                         marks |-> FlagMarks(eqmsOf(chosen[k]))]],
         counts |-> [c \in 1..4 |->
                        Cardinality({pRanki \in 1..Len(inverseSolver.preferenceRankings) :
                                         inverseSolver.equilibriums[c][pRanki]})]]

\* a call of filter on a solver whose findEquilibria has run
FilterCall(filt) ==
    /\ pc = "searched"
    /\ NoCallYet
    /\ call' = [op |-> "filter", filt |-> filt]
    /\ ret' = filter(filt)
    /\ UNCHANGED <<conflictVars, coalitions, payoffs, effectiveDMs, reachability,
                   payoffMatrix, pc, stabilities, equilibria, rankingVars, otherVars>>

\* manual rankings of the states 1..n, none tied
UntiedRankings(n) == {[i \in 1..n |-> <<r[i]>>] : r \in Rankings(n)}

\* the spans of up to MaxVaryWidth entries at the head or the tail of a ranking
\* of n entries, [0, 0] standing for no variation
HeadTailSpans(n) ==
    {<<0, 0>>} \cup {<<0, w>> : w \in 2..MaxVaryWidth} \cup {<<n - w, n>> : w \in 2..MaxVaryWidth}

\* conflicts for the inverse solver: three reversible options split between two
\* decision makers, infeasible with the first two options taken and when the
\* third option alone is taken, manual rankings entered: any for the first decision maker,
\* the states in order for the second
InitInverseSolve ==
    \E own \in BlockSplits(3, 2), c \in {<<"N", "N", "Y">>} :
      \E infeas \in {<<<<"Y", "Y", "-">>, c>>} :
        /\ Len(FeasibleList(3, infeas)) <= MaxInverseStates
        /\ \E first \in UntiedRankings(Len(FeasibleList(3, infeas))) :
             /\ options = [k \in 1..3 |-> "both"]
             /\ decisionMakers = [d \in 1..2 |->
                                     [options |-> Controlled(own, d), preferences |-> <<>>]]
             /\ infeasibles = infeas
             /\ feasibles = FeasibleList(3, infeas)
             /\ coalitions = <<>>
             /\ payoffs = [d \in 1..2 |-> <<>>]
             /\ effectiveDMs = <<>>
             /\ reachability = <<>>
             /\ payoffMatrix = <<>>
             /\ pc = "model"
             /\ call = NoCall
             /\ ret = <<>>
             /\ stabilities = <<>>
             /\ equilibria = <<>>
             /\ preferenceRanking = <<first, [i \in 1..Len(first) |-> <<i>>]>>
             /\ useManualPreferenceRanking = TRUE
             /\ NoOtherObjects

NextInverseSolve ==
    \/ \E vary \in [1..2 -> HeadTailSpans(NumStates)], desEq \in States :
         ConstructInverse(vary, desEq)
    \/ InverseFindEquilibria
    \/ \E filt \in [1..4 -> {0, 1}] : FilterCall(filt)

SpecInverseSolve == InitInverseSolve /\ [][NextInverseSolve]_vars

\* --------------------------------------------------------------- GoalSeeker
MaxSeekerOptions == 2
MaxSeekerDMs == 2
MaxGoals == 2

\* The requirement objects. A party is named by its position in effectiveDMs
\* (co.name: the names of different parties are different).
MoreThanFor(co, s0, s1) == [kind |-> "MoreThanFor", co |-> co, s0 |-> s0, s1 |-> s1]

LessThanOneOf(co, s0, li) == [kind |-> "LessThanOneOf", co |-> co, s0 |-> s0, li |-> li]

PatternOr(plist) == [kind |-> "PatternOr", plist |-> plist]

\* GoalSeeker.nashGoal(state0, stable), as what PatternAnd.append adds to the
\* plist of the PatternAnd of nash(): the items of a PatternAnd one by one, a
\* PatternOr as one item
nashGoal(state0, stable) ==
    IF stable
    THEN [co \in 1..Len(effectiveDMs) |-> MoreThanFor(co, state0, reachable(co, state0))]
    ELSE <<PatternOr(SelectSeq([co \in 1..Len(effectiveDMs) |->
                                   LessThanOneOf(co, state0, reachable(co, state0))],
                               LAMBDA cond : cond.li # <<>>))>>

\* the plist of PatternAnd(*[self.nashGoal(s0, stable) for s0, stable in self.goals])
Requirements(goals) ==
    Concat([g \in 1..Len(goals) |-> nashGoal(goals[g][1], goals[g][2])])

\* The dict lessThans[co][s1], a list of the states s0 that s1 must be less
\* preferred than, is only ever tested for membership: it is kept as the set of
\* the triples <<co, s1, s0>>. A missing key reads as an empty list (KeyError
\* is caught and means no conflict).
\* the message MoreThanFor.isImpossible returns
ConflictMessage(s0, s1) == <<"CONFLICT", s0 + 1, s1 + 1>>

\* MoreThanFor.isImpossible: the positions in self.s1 of the states recorded as
\* more preferred than self.s0
RecordedAbove(pat, lt) == {k \in 1..Len(pat.s1) : <<pat.co, pat.s0, pat.s1[k]>> \in lt}

\* PatternAnd.isImpossible(lessThans) from the item at position k on: what the
\* call returns or raises, and the dict as the call leaves it. A PatternOr
\* returns False at its first item (a LessThanOneOf); with no item it reaches
\* "return conf" with conf unbound.
RECURSIVE isImpossible(_, _, _)
isImpossible(plist, k, lt) ==
    IF k > Len(plist) THEN [raised |-> "", conf |-> None, lessThans |-> lt]
    ELSE IF plist[k].kind = "PatternOr"
         THEN IF plist[k].plist = <<>>
              THEN [raised |-> "UnboundLocalError", conf |-> None, lessThans |-> lt]
              ELSE isImpossible(plist, k + 1, lt)
         ELSE LET pat == plist[k]
                  hits == RecordedAbove(pat, lt)
              IN  IF hits # {}
                  THEN [raised |-> "",
                        conf |-> ConflictMessage(pat.s0,
                                     pat.s1[CHOOSE h \in hits : \A j \in hits : h <= j]),
                        lessThans |-> lt]
                  ELSE isImpossible(plist, k + 1,
                           lt \cup {<<pat.co, pat.s1[i], pat.s0>> : i \in 1..Len(pat.s1)})

\* what requirements.asString() gives after nash(): the conflict message when
\* there is one, the text of the tree otherwise
asString(conf) == IF conf # None THEN conf ELSE <<"TREE">>

\* what GoalSeeker(conflict, goals).nash() followed by asString() gives when
\* the shared dict holds lt
NashOutcome(goals, lt) ==
    LET res == isImpossible(Requirements(goals), 1, lt)
    IN  IF res.raised # "" THEN Raised(res.raised)
        ELSE Returned([conf |-> res.conf, asString |-> asString(res.conf)])

\* GoalSeeker(conflict, goals).nash(), then asString() of what it returned; the
\* matrices are those the first GoalSeeker of the conflict built
NashCall(goals) ==
    /\ pc = "built"
    /\ call' = [op |-> "nash", goals |-> goals]
    /\ ret' = NashOutcome(goals, lessThans)
    /\ lessThans' = isImpossible(Requirements(goals), 1, lessThans).lessThans
    /\ UNCHANGED <<conflictVars, coalitions, payoffs, effectiveDMs, reachability,
                   payoffMatrix, pc, stabilities, equilibria, rankingVars, inverseSolver,
                   editorVars, objectVars>>

\* lists of one to MaxGoals goals (state, stable) over the states 0..n-1
GoalLists(n) ==
    UNION {[1..len -> (0..(n - 1)) \X BOOLEAN] : len \in 1..MaxGoals}

\* conflicts for the goal seeker: up to MaxSeekerOptions options, one of them at
\* most irreversible, each with one owner among up to MaxSeekerDMs decision
\* makers, every state feasible, no preferences
InitSeeker ==
    \E n \in 1..MaxSeekerOptions, m \in 1..MaxSeekerDMs :
      \E dirs \in {x \in [1..n -> Directions] :
                       Cardinality({k \in 1..n : x[k] # "both"}) <= 1},
         own \in [1..n -> {{d} : d \in 1..m}] :
        Loaded(dirs, own, <<>>, [d \in 1..m |-> <<>>], <<>>)

NextSeeker ==
    \/ Construct(TRUE)
    \/ \E goals \in GoalLists(NumStates) : NashCall(goals)

SpecSeeker == InitSeeker /\ [][NextSeeker]_vars

\* ------------------------------------------------- ConflictModel.json_import
MaxImportOptions == 2
MaxImportDMs == 2

\* the decision makers the entries of a coalition list name, entry by entry and
\* member by member
Listed(coal) == Concat([k \in 1..Len(coal) |-> coal[k].members])

\* CoalitionList.validate: dms is what is left of list(self.conflict.decisionMakers),
\* listed the members still to be removed from it. "dms.remove(dm)" raises
\* ValueError when dm is not in dms.
RECURSIVE validate(_, _)
validate(dms, listed) ==
    IF listed = <<>> THEN (IF dms = {} THEN "True" ELSE "False")
    ELSE IF Head(listed) \notin dms THEN "ValueError"
         ELSE validate(dms \ {Head(listed)}, Tail(listed))

\* CoalitionList.from_json for each entry of d['coalitions']: a Coalition of the
\* decision makers at the given positions (from 0). An entry that is an integer k
\* gives the same Coalition as the list [k] and is written as that list.
CoalitionsFromJson(coData) ==
    [k \in 1..Len(coData) |->
        CoalitionParty([i \in 1..Len(coData[k]) |-> coData[k][i] + 1])]

\* json_import, the coalition list as the loop over d['coalitions'] leaves it (one
\* entry per decision maker when the key is missing)
ImportedCoalitions(m, hasKey, coData) ==
    IF hasKey THEN CoalitionsFromJson(coData) ELSE [d \in 1..m |-> DMParty(d)]

\* ConflictModel.json_import(d) on a new conflict. The file lists the options in
\* the order save_to_file writes them (reorderOptionsByDM moves none), option k
\* owned by own[k]; with d['useManualPreferenceRanking'] each decision maker
\* comes with its 'preferenceRanking'. When validate raises, the exception leaves
\* json_import with the conflict as filled so far.
JsonImport(dirs, own, infeas, prefs, manual, rankings, hasKey, coData) ==
    /\ pc = "model"
    /\ options = <<>>
    /\ decisionMakers = <<>>
    /\ options' = dirs
    /\ decisionMakers' = [d \in DOMAIN prefs |->
                             [options |-> Controlled(own, d), preferences |-> prefs[d]]]
    /\ infeasibles' = infeas
    /\ feasibles' = FeasibleList(Len(dirs), infeas)
    /\ useManualPreferenceRanking' = manual
    /\ payoffs' = [d \in DOMAIN prefs |->
                      IF manual THEN mapPrefRank2Payoffs(rankings[d], feasibles')
                      ELSE prefPriorities2payoffs(prefs[d], feasibles')]
    /\ preferenceRanking' = [d \in DOMAIN prefs |->
                                IF manual THEN rankings[d] ELSE RankingOf(payoffs'[d])]
    /\ LET imported == ImportedCoalitions(Len(prefs), hasKey, coData)
           valid == validate(DOMAIN prefs, Listed(imported))
       IN  /\ coalitions' = IF valid = "False"
                            THEN [d \in DOMAIN prefs |-> DMParty(d)] ELSE imported
           /\ pc' = IF valid = "ValueError" THEN "raised" ELSE "model"
           /\ ret' = IF valid = "ValueError" THEN Raised("ValueError") ELSE <<>>
    /\ call' = [op |-> "json_import", hasCoalitions |-> hasKey, coalitions |-> coData]
    /\ UNCHANGED <<effectiveDMs, reachability, payoffMatrix, stabilities, equilibria,
                   otherVars>>

\* the option owners of a saved file: one owner per option, the options of the
\* decision makers in the order of the decision makers
OrderedOwners(n, m) ==
    {own \in [1..n -> {{d} : d \in 1..m}] :
        \A k \in 1..(n - 1) : \A d \in own[k], e \in own[k + 1] : d <= e}

\* coalition data over m decision makers: up to m entries, each a list of up to m
\* positions
CoalitionData(m) ==
    LET entries == UNION {[1..len -> 0..(m - 1)] : len \in 1..m}
    IN  UNION {[1..len -> entries] : len \in 0..m}

\* the rankings of n states a file may hold: the states in order or in reverse,
\* the last state left out, the first state in place of the last, the first
\* state once more at the end
FileRankings(n) ==
    {[i \in 1..n |-> <<i>>], [i \in 1..n |-> <<n + 1 - i>>],
     [i \in 1..(n - 1) |-> <<i>>],
     [i \in 1..n |-> IF i = n THEN <<1>> ELSE <<i>>],
     [i \in 1..(n + 1) |-> IF i = n + 1 THEN <<1>> ELSE <<i>>]}

\* the load of a saved conflict into a new one; the file has the key
\* 'coalitions' or not as withKey allows
LoadFile(withKey) ==
    /\ pc = "model"
    /\ options = <<>>
    /\ \E n \in 1..MaxImportOptions, m \in 1..MaxImportDMs :
      \E own \in OrderedOwners(n, m),
         infeas \in {<<>>} \cup {<<c>> : c \in FullStates(n)},
         first \in PrefLists(n, 1, 0..MaxPrefs),
         manual \in BOOLEAN, hasKey \in withKey :
        \E rankings \in [1..m -> IF manual
                                 THEN FileRankings(Len(FeasibleList(n, infeas)))
                                 ELSE {<<>>}],
           coData \in IF hasKey THEN CoalitionData(m) ELSE {<<>>} :
          JsonImport([k \in 1..n |-> "both"], own, infeas,
                     [d \in 1..m |-> IF d = 1 THEN first ELSE <<>>],
                     manual, rankings, hasKey, coData)

NextImport ==
    \/ LoadFile(BOOLEAN)
    \/ Construct(TRUE)

SpecImport == NewConflict /\ [][NextImport]_vars

\* ------------------------------------------- the preference ranking editors
\* gmcrUtil.validatePreferenceRanking(prefRank, feasibles): "" (None) when every
\* feasible state 1..n is ranked exactly once, a message otherwise
validatePreferenceRanking(prefRank, n) ==
    LET ranked == Concat(prefRank)
    IN  IF \A state \in 1..n : Cardinality({k \in 1..Len(ranked) : ranked[k] = state}) = 1
        THEN IF \A k \in 1..Len(ranked) : ranked[k] \in 1..n THEN "" ELSE "invalid"
        ELSE "invalid"

\* PRankEditMaster.updateErrors: self.conflict.preferenceErrors = len(messages)
ErrorCount(details) == <<Cardinality({d \in 1..Len(details) : details[d] # ""})>>

\* PRankEditMaster.refresh(): a RankingEditor per decision maker, then updateErrors
EnterRankingFrame ==
    /\ pc = "model"
    /\ Len(decisionMakers) >= 1
    /\ \A d \in 1..Len(decisionMakers) : preferenceRanking[d] # <<>>
    /\ errorDetails = <<>>
    /\ errorDetails' = [d \in 1..Len(decisionMakers) |-> ""]
    /\ preferenceErrors' = ErrorCount(errorDetails')
    /\ UNCHANGED <<conflictVars, coalitions, payoffs, effectiveDMs, reachability,
                   payoffMatrix, pc, call, ret, stabilities, equilibria, rankingVars,
                   inverseSolver, lessThans, objectVars>>

\* PRankEditMaster.enableEditing(): the button that switches manual rankings on
EnableEditing ==
    /\ pc = "model"
    /\ errorDetails # <<>>
    /\ ~useManualPreferenceRanking
    /\ useManualPreferenceRanking' = TRUE
    /\ UNCHANGED <<conflictVars, coalitions, payoffs, effectiveDMs, reachability,
                   payoffMatrix, pc, call, ret, stabilities, equilibria, preferenceRanking,
                   otherVars>>

\* RankingEditor.onFocusOut of the editor of decision maker d, with a text that
\* eval turns into prefRank when it parses; the event <<errorChange>> it generates
\* runs updateErrors. The editors take input once manual rankings are on.
OnFocusOut(d, parses, prefRank) ==
    /\ pc = "model"
    /\ errorDetails # <<>>
    /\ useManualPreferenceRanking
    /\ errorDetails' = [errorDetails EXCEPT ![d] =
                           IF parses THEN validatePreferenceRanking(prefRank, NumStates)
                           ELSE "invalid"]
    /\ preferenceErrors' = ErrorCount(errorDetails')
    /\ IF errorDetails'[d] = ""
       THEN /\ preferenceRanking' = [preferenceRanking EXCEPT ![d] = prefRank]
            /\ payoffs' = [payoffs EXCEPT ![d] = mapPrefRank2Payoffs(prefRank, feasibles)]
       ELSE UNCHANGED <<preferenceRanking, payoffs>>
    /\ call' = [op |-> "onFocusOut", dm |-> d, parses |-> parses, prefRank |-> prefRank]
    /\ UNCHANGED <<conflictVars, coalitions, effectiveDMs, reachability, payoffMatrix,
                   pc, ret, stabilities, equilibria, useManualPreferenceRanking,
                   inverseSolver, lessThans, objectVars>>

\* InverseFrame.hasRequiredData()
hasRequiredData ==
    /\ Len(decisionMakers) >= 1
    /\ Len(options) >= 1
    /\ NumStates >= 1
    /\ preferenceErrors \in {None, <<0>>}

NextRanking ==
    \/ LoadFile({FALSE})
    \/ EnterRankingFrame
    \/ EnableEditing
    \/ \E d \in 1..Len(decisionMakers), parses \in BOOLEAN,
          prefRank \in FileRankings(NumStates) :
         OnFocusOut(d, parses, prefRank)
    \/ Construct(TRUE)

SpecRanking == NewConflict /\ [][NextRanking]_vars

\* ------------------------------------------------- edits of a loaded conflict
MaxMutateOptions == 2
MaxMutateConditions == 1

\* conflict.infeasibles.append(condition): the condition is kept unless one of
\* the same name (its Yes/No/Dash notation) is in the list
AppendInfeasible(cond) ==
    /\ pc = "model"
    /\ NumOptions >= 1
    /\ Len(infeasibles) < MaxMutateConditions
    /\ infeasibles' = IF Contains(infeasibles, cond) THEN infeasibles
                      ELSE Append(infeasibles, cond)
    /\ call' = [op |-> "infeasibles.append", cond |-> cond]
    /\ UNCHANGED <<options, decisionMakers, feasibles, coalitions, payoffs, effectiveDMs,
                   reachability, payoffMatrix, pc, ret, stabilities, equilibria,
                   rankingVars, otherVars>>

\* conflict.infeasibles.removeCondition(idx)
removeCondition(idx) ==
    /\ pc = "model"
    /\ infeasibles' = [k \in 1..(Len(infeasibles) - 1) |->
                          IF k <= idx THEN infeasibles[k] ELSE infeasibles[k + 1]]
    /\ call' = [op |-> "removeCondition", idx |-> idx]
    /\ UNCHANGED <<options, decisionMakers, feasibles, coalitions, payoffs, effectiveDMs,
                   reachability, payoffMatrix, pc, ret, stabilities, equilibria,
                   rankingVars, otherVars>>

\* dm.options.append(name): a new option, appended to the master list and to the
\* decision maker's list. The decision maker is the last one, so that the new
\* option is where reorderOptionsByDM would put it; the Yes/No/Dash notation of
\* every condition gets a dash for the new option (Condition.ynd).
AppendOption(dir) ==
    /\ pc = "model"
    /\ Len(decisionMakers) >= 1
    /\ NumOptions < MaxMutateOptions
    /\ options' = Append(options, dir)
    /\ decisionMakers' = [decisionMakers EXCEPT ![Len(decisionMakers)].options =
                              Append(@, NumOptions)]
    /\ infeasibles' = [k \in 1..Len(infeasibles) |-> Append(infeasibles[k], "-")]
    /\ call' = [op |-> "options.append", dm |-> Len(decisionMakers)]
    /\ UNCHANGED <<feasibles, coalitions, payoffs, effectiveDMs, reachability,
                   payoffMatrix, pc, ret, stabilities, equilibria, rankingVars, otherVars>>

\* MainAppWindow.refreshActiveFrames, the handler of <<breakingChange>>:
\* reorderOptionsByDM and set_indexes move no option here, then
\* recalculateFeasibleStates(), with onFeasibleStatesChanged when the decimal
\* values of the feasible states are not what they were
refreshActiveFrames ==
    /\ pc = "model"
    /\ Len(decisionMakers) >= 1
    /\ feasibles' = FeasibleList(NumOptions, infeasibles)
    /\ useManualPreferenceRanking' =
           IF feasibles' # feasibles THEN FALSE ELSE useManualPreferenceRanking
    /\ call' = [op |-> "refreshActiveFrames", changed |-> feasibles' # feasibles]
    /\ UNCHANGED <<options, decisionMakers, infeasibles, coalitions, payoffs,
                   effectiveDMs, reachability, payoffMatrix, pc, ret, stabilities,
                   equilibria, preferenceRanking, otherVars>>

NextMutate ==
    \/ LoadFile({FALSE})
    \/ \E cond \in FullStates(NumOptions) : AppendInfeasible(cond)
    \/ \E idx \in 0..(Len(infeasibles) - 1) : removeCondition(idx)
    \/ AppendOption("both")
    \/ refreshActiveFrames
    \/ Construct(TRUE)

SpecMutate == NewConflict /\ [][NextMutate]_vars

\* ------------------------------------------------ the objects of a conflict
MaxObjectOptions == 2
MaxObjectDMs == 3
MaxObjectCoalitions == 2
MaxRefs == 3

\* list.remove(x): the list without the first occurrence of x
RemoveItem(items, x) ==
    LET at == IndexOf(items, x) + 1
    IN  [k \in 1..(Len(items) - 1) |-> IF k < at THEN items[k] ELSE items[k + 1]]

\* del list[idx]
DeleteAt(items, idx) ==
    [k \in 1..(Len(items) - 1) |-> IF k <= idx THEN items[k] ELSE items[k + 1]]

\* the object state an option list works on: its own itemList, the master
\* list's itemList and the reference counts
Lists(items, master, counts) == [items |-> items, master |-> master, refs |-> counts]

\* OptionList.append(item) of a list with a master list, item an Option
OptionListAppend(l, item) ==
    IF Contains(l.items, item) THEN l
    ELSE [items |-> Append(l.items, item),
          master |-> IF Contains(l.master, item) THEN l.master ELSE Append(l.master, item),
          refs |-> [l.refs EXCEPT ![item] = @ + 1]]

\* "for opt in dm.options: self.options.append(opt)"
RECURSIVE AppendEach(_, _)
AppendEach(l, opts) ==
    IF opts = <<>> THEN l ELSE AppendEach(OptionListAppend(l, Head(opts)), Tail(opts))

\* Coalition.refresh(): a new option list on the master list, filled with the
\* options of the members (the name and the payoff strings are left out)
refresh(members, master, counts) ==
    AppendEach(Lists(<<>>, master, counts), Concat([k \in 1..Len(members) |->
                                                      dmOptionItems[members[k]]]))

\* ObjectList.remove(item) of a list with a master list: the item leaves the
\* list, then the master list, which raises ValueError when it is not there
ObjectListRemove(l, item) ==
    IF Contains(l.master, item)
    THEN [items |-> RemoveItem(l.items, item), master |-> RemoveItem(l.master, item),
          raised |-> FALSE]
    ELSE [items |-> RemoveItem(l.items, item), master |-> l.master, raised |-> TRUE]

\* "for opt in reversed(self.options): self.removeOption(opt)": from the last
\* option k of the list down, until a removal raises
RECURSIVE RemoveReversed(_, _)
RemoveReversed(l, k) ==
    IF k = 0 \/ l.raised THEN l
    ELSE RemoveReversed(ObjectListRemove(l, l.items[k]), k - 1)

\* an entry of the coalition list: a DecisionMaker, or a Coalition with its
\* members and its option list
DMEntry(dm) == [isCoalition |-> FALSE, members |-> <<dm>>, options |-> <<>>]

CoalitionEntry(members, opts) == [isCoalition |-> TRUE, members |-> members, options |-> opts]

\* the loop "for co in self.conflict.coalitions" of onDelete, at position i of
\* the list as it is by then: the decision maker's own entry is removed from the
\* list while the list is iterated; at the first Coalition the decision maker is
\* removed from its members if it is one (Coalition.remove, with refresh), and
\* the loop is left
RECURSIVE CoalitionLoop(_, _, _, _, _)
CoalitionLoop(self, entries, i, master, counts) ==
    IF i > Len(entries) THEN [entries |-> entries, master |-> master, refs |-> counts]
    ELSE LET co == entries[i]
         IN  IF co.isCoalition
             THEN IF Contains(co.members, self)
                  THEN LET l == refresh(RemoveItem(co.members, self), master, counts)
                       IN  [entries |-> [entries EXCEPT ![i] =
                                CoalitionEntry(RemoveItem(co.members, self), l.items)],
                            master |-> l.master, refs |-> l.refs]
                  ELSE [entries |-> entries, master |-> master, refs |-> counts]
             ELSE IF co.members = <<self>>
                  THEN CoalitionLoop(self, RemoveItem(entries, co), i + 1, master, counts)
                  ELSE CoalitionLoop(self, entries, i + 1, master, counts)

\* everything but the objects and the record of the last call
conflictState == <<conflictVars, coalitions, payoffs, effectiveDMs, reachability,
                   payoffMatrix, pc, stabilities, equilibria, rankingVars,
                   inverseSolver, lessThans, editorVars>>

\* conflict.decisionMakers.append(name): a new DecisionMaker with no options
AppendDecisionMaker ==
    /\ Len(dmOptionItems) < MaxObjectDMs
    /\ dmOptionItems' = Append(dmOptionItems, <<>>)
    /\ dmItems' = Append(dmItems, Len(dmOptionItems) + 1)
    /\ call' = [op |-> "decisionMakers.append", dm |-> Len(dmOptionItems) + 1]
    /\ ret' = Returned(None)
    /\ UNCHANGED <<conflictState, refs, optionItems, coalitionItems>>

\* dm.options.append(name): OptionList.append of a string makes a new Option
NewOption(dm) ==
    /\ Len(refs) < MaxObjectOptions
    /\ refs' = Append(refs, 1)
    /\ optionItems' = Append(optionItems, Len(refs) + 1)
    /\ dmOptionItems' = [dmOptionItems EXCEPT ![dm] = Append(@, Len(refs) + 1)]
    /\ call' = [op |-> "options.append", dm |-> dm]
    /\ ret' = Returned(None)
    /\ UNCHANGED <<conflictState, dmItems, coalitionItems>>

\* DecisionMaker.addOption(option)
addOption(dm, option) ==
    /\ refs[option] < MaxRefs
    /\ \A l \in {OptionListAppend(Lists(dmOptionItems[dm], optionItems, refs), option)} :
           /\ dmOptionItems' = [dmOptionItems EXCEPT ![dm] = l.items]
           /\ optionItems' = l.master
           /\ refs' = l.refs
    /\ call' = [op |-> "addOption", dm |-> dm, option |-> option]
    /\ ret' = Returned(None)
    /\ UNCHANGED <<conflictState, dmItems, coalitionItems>>

\* DecisionMaker.removeOption(option)
removeOption(dm, option) ==
    /\ IF Contains(dmOptionItems[dm], option)
       THEN \A l \in {ObjectListRemove([items |-> dmOptionItems[dm],
                                        master |-> optionItems], option)} :
                /\ dmOptionItems' = [dmOptionItems EXCEPT ![dm] = l.items]
                /\ optionItems' = l.master
                /\ ret' = IF l.raised THEN Raised("ValueError") ELSE Returned(None)
       ELSE /\ UNCHANGED <<dmOptionItems, optionItems>>
            /\ ret' = Returned(None)
    /\ call' = [op |-> "removeOption", dm |-> dm, option |-> option]
    /\ UNCHANGED <<conflictState, refs, dmItems, coalitionItems>>

\* the decision makers some entry of the coalition list stands for
InCoalitionList(dm) ==
    \E k \in 1..Len(coalitionItems) : Contains(coalitionItems[k].members, dm)

\* conflict.coalitions.append(dm), of a decision maker no entry stands for yet
\* (a list that CoalitionList.validate accepts has each decision maker once)
AppendDMEntry(dm) ==
    /\ Len(coalitionItems) < MaxObjectCoalitions
    /\ ~InCoalitionList(dm)
    /\ coalitionItems' = Append(coalitionItems, DMEntry(dm))
    /\ call' = [op |-> "coalitions.append", members |-> <<dm>>]
    /\ ret' = Returned(None)
    /\ UNCHANGED <<conflictState, refs, optionItems, dmOptionItems, dmItems>>

\* conflict.coalitions.append(Coalition(conflict, members)), of decision makers
\* no entry stands for yet
AppendCoalition(members) ==
    /\ Len(coalitionItems) < MaxObjectCoalitions
    /\ \A k \in 1..Len(members) : ~InCoalitionList(members[k])
    /\ \A l \in {refresh(members, optionItems, refs)} :
           /\ \A o \in 1..Len(refs) : l.refs[o] <= MaxRefs
           /\ coalitionItems' = Append(coalitionItems, CoalitionEntry(members, l.items))
           /\ optionItems' = l.master
           /\ refs' = l.refs
    /\ call' = [op |-> "coalitions.append", members |-> members]
    /\ ret' = Returned(None)
    /\ UNCHANGED <<conflictState, dmOptionItems, dmItems>>

\* conflict.coalitions[idx].refresh()
RefreshCoalition(idx) ==
    /\ coalitionItems[idx + 1].isCoalition
    /\ \A l \in {refresh(coalitionItems[idx + 1].members, optionItems, refs)} :
           /\ \A o \in 1..Len(refs) : l.refs[o] <= MaxRefs
           /\ coalitionItems' = [coalitionItems EXCEPT ![idx + 1].options = l.items]
           /\ optionItems' = l.master
           /\ refs' = l.refs
    /\ call' = [op |-> "refresh", idx |-> idx]
    /\ ret' = Returned(None)
    /\ UNCHANGED <<conflictState, dmOptionItems, dmItems>>

\* del conflict.decisionMakers[key]: DecisionMakerList.__delitem__ with
\* DecisionMaker.onDelete. When a removal of onDelete raises, the decision
\* maker stays in the list with the options not yet removed.
DeleteDecisionMaker(key) ==
    /\ \A self \in {dmItems[key + 1]} :
       \A l \in {RemoveReversed([items |-> dmOptionItems[self], master |-> optionItems,
                                 raised |-> FALSE], Len(dmOptionItems[self]))} :
           /\ dmOptionItems' = [dmOptionItems EXCEPT ![self] = l.items]
           /\ call' = [op |-> "decisionMakers.__delitem__", dm |-> self]
           /\ IF l.raised
              THEN /\ optionItems' = l.master
                   /\ ret' = Raised("ValueError")
                   /\ UNCHANGED <<refs, dmItems, coalitionItems>>
              ELSE \A c \in {CoalitionLoop(self, coalitionItems, 1, l.master, refs)} :
                       /\ \A o \in 1..Len(refs) : c.refs[o] <= MaxRefs
                       /\ coalitionItems' = c.entries
                       /\ optionItems' = c.master
                       /\ refs' = c.refs
                       /\ dmItems' = DeleteAt(dmItems, key)
                       /\ ret' = Returned(None)
    /\ UNCHANGED conflictState

\* member lists of a new Coalition: one or two decision makers of the conflict
MemberLists ==
    {<<d>> : d \in Range(dmItems)} \cup
    {<<pair[1], pair[2]>> : pair \in {x \in Range(dmItems) \X Range(dmItems) : x[1] < x[2]}}

NextObjects ==
    \/ AppendDecisionMaker
    \/ \E dm \in Range(dmItems) : NewOption(dm)
    \/ \E dm \in Range(dmItems), option \in Range(optionItems) : addOption(dm, option)
    \/ \E dm \in Range(dmItems), option \in 1..Len(refs) : removeOption(dm, option)
    \/ \E dm \in Range(dmItems) : AppendDMEntry(dm)
    \/ \E members \in MemberLists : AppendCoalition(members)
    \/ \E idx \in 0..(Len(coalitionItems) - 1) : RefreshCoalition(idx)
    \/ \E key \in 0..(Len(dmItems) - 1) : DeleteDecisionMaker(key)

SpecObjects == NewConflict /\ [][NextObjects]_vars

NextSolve ==
    \/ Construct(TRUE)
    \/ FindEquilibria

SpecSolve == InitSolve /\ [][NextSolve]_vars

Next ==
    \/ \E useCoalitions \in BOOLEAN : Construct(useCoalitions)
    \/ \E p \in 1..Len(effectiveDMs), s \in States : ReachableCall(p, s)

Spec == Init /\ [][Next]_vars

\* ================================================================== claims
\* the options a party controls: those of its members
ControlledBy(p) ==
    UNION {Range(decisionMakers[d].options) : d \in Range(effectiveDMs[p].members)}

\* whether option opt (a master index) is taken in the feasible state of index s
Taken(s, opt) == (At(feasibles, s) \div Pow2(opt)) % 2 = 1

Parties == 1..Len(effectiveDMs)

AllOptions == 0..(NumOptions - 1)

AllBoth == \A k \in 1..NumOptions : options[k] = "both"

\* C1: whenever a party's reachability matrix has [i,j] = 1, states i and j have
\* the same value for every option the party does not control, also in conflicts
\* where an option is controlled by more than one party.
C1_OnlyOwnOptionsChange ==
    Built =>
        \A p \in Parties : \A i \in States, j \in States :
            reachability[p][i][j] = 1 =>
                \A opt \in AllOptions \ ControlledBy(p) : Taken(i, opt) = Taken(j, opt)

\* C2: reachability is irreflexive: after construction the entry [s,s] of every
\* party's matrix is 0, and reachable(party, s) and UIs(party, s) never contain s.
C2_Irreflexive ==
    Built =>
        /\ \A p \in Parties : \A s \in States :
               /\ reachability[p][s][s] = 0
               /\ ~Contains(reachable(p, s), s)
               /\ ~Contains(UIs(p, s, None), s)
        /\ call.op = "reachable" => ~Contains(ret, call.state)

\* a call of reachable has returned two or more states
C2_Witness ==
    /\ pc = "built"
    /\ call.op = "reachable"
    /\ Len(ret) >= 2

\* C3: in every party's matrix, whether or not the party controls the option, no
\* entry takes a forward-only option from taken to not taken and no entry takes
\* a backward-only option from not taken to taken.
C3_IrreversibleMovesRemoved ==
    Built =>
        \A p \in Parties : \A i \in States, j \in States : \A opt \in AllOptions :
            /\ (options[opt + 1] = "fwd" /\ Taken(i, opt) /\ ~Taken(j, opt))
                   => reachability[p][i][j] = 0
            /\ (options[opt + 1] = "back" /\ ~Taken(i, opt) /\ Taken(j, opt))
                   => reachability[p][i][j] = 0

\* a party keeps a move that takes an irreversible option in its permitted
\* direction, between two states of which the reverse move was removed
C3_Witness ==
    /\ Built
    /\ \E p \in Parties : \E i \in States, j \in States : \E opt \in AllOptions :
           /\ \/ options[opt + 1] = "fwd" /\ ~Taken(i, opt) /\ Taken(j, opt)
              \/ options[opt + 1] = "back" /\ Taken(i, opt) /\ ~Taken(j, opt)
           /\ reachability[p][i][j] = 1
           /\ reachability[p][j][i] = 0

\* C4: when every option has permitted direction "both", each party's
\* reachability is closed under composition over distinct states i, j, k.
C4_ClosedUnderComposition ==
    (Built /\ AllBoth) =>
        \A p \in Parties : \A i \in States, j \in States, k \in States :
            (/\ i # j /\ j # k /\ i # k
             /\ reachability[p][i][j] = 1
             /\ reachability[p][j][k] = 1)
                => reachability[p][i][k] = 1

\* the scenario of two decision makers with one option each, both of direction
\* "both", no infeasible condition, each decision maker a party of its own
TwoByOneScenario ==
    /\ options = <<"both", "both">>
    /\ Len(decisionMakers) = 2
    /\ decisionMakers[1].options = <<0>>
    /\ decisionMakers[2].options = <<1>>
    /\ infeasibles = <<>>
    /\ effectiveDMs = <<DMParty(1), DMParty(2)>>

\* C5: when no option is irreversible, two distinct feasible states that agree
\* on every option party p does not control are mutually reachable for p; in
\* the two-by-one scenario DM1's matrix holds exactly 00<->10 and 01<->11.
C5_MutuallyReachable ==
    (Built /\ AllBoth) =>
        /\ \A p \in Parties : \A i \in States, j \in States :
               (/\ i # j
                /\ \A opt \in AllOptions \ ControlledBy(p) : Taken(i, opt) = Taken(j, opt))
                   => /\ reachability[p][i][j] = 1
                      /\ reachability[p][j][i] = 1
        /\ TwoByOneScenario =>
               {pr \in States \X States : reachability[1][pr[1]][pr[2]] = 1}
                   = {<<0, 1>>, <<1, 0>>, <<2, 3>>, <<3, 2>>}

\* the matrices of the two-by-one scenario have been built
C5_Witness == Built /\ TwoByOneScenario

\* ------------------------------------------------- preference, as the claims state it
\* party p strictly prefers state a to state b: every member's payoff at a is
\* greater than at b (one member for a decision maker)
StrictlyPrefers(p, a, b) ==
    \A k \in 1..Len(effectiveDMs[p].members) :
        At(payoffs[effectiveDMs[p].members[k]], a) > At(payoffs[effectiveDMs[p].members[k]], b)

CanReach(p, i, j) == reachability[p][i][j] = 1

\* the states reachable by p from s that p strictly prefers to ref
Improvements(p, s, ref) == {j \in States : CanReach(p, s, j) /\ StrictlyPrefers(p, j, ref)}

Solved == pc = "solved"

\* C6: nash(party, s) is True iff no state reachable from s has a strictly
\* greater payoff for the party (a reachable state of equal payoff is no
\* improvement), and UIs(party, s, ref) returns exactly the states reachable
\* from s that are strictly preferred to ref, ref defaulting to s (in ascending
\* order, each once).
C6_NashAndUIs ==
    /\ pc = "built" =>
           \A p \in Parties : \A s \in States :
               /\ nash(p, s) <=> ~\E j \in States : CanReach(p, s, j) /\ StrictlyPrefers(p, j, s)
               /\ UIs(p, s, None) = UIs(p, s, <<s>>)
               /\ \A ref \in States : \A uis \in {UIs(p, s, <<ref>>)} :
                      /\ \A j \in States :
                             Contains(uis, j) <=> (CanReach(p, s, j) /\ StrictlyPrefers(p, j, ref))
                      /\ \A k \in 1..(Len(uis) - 1) : uis[k] < uis[k + 1]
    /\ Solved =>
           \A p \in Parties : \A s \in States :
               stabilities.nash[p][s] = 1 <=>
                   ~\E j \in States : CanReach(p, s, j) /\ StrictlyPrefers(p, j, s)

\* a party is Nash stable at a state from which it can reach a state of equal
\* payoff, and is not Nash stable at another state
C6_Witness ==
    /\ Solved
    /\ \E p \in Parties : \E s \in States, j \in States, t \in States :
           /\ stabilities.nash[p][s] = 1
           /\ CanReach(p, s, j)
           /\ ~StrictlyPrefers(p, j, s) /\ ~StrictlyPrefers(p, s, j)
           /\ stabilities.nash[p][t] = 0

\* C7 as claimed: seq(party, s0) is True iff for every unilateral improvement s1
\* of the party from s0 some other party has a unilateral improvement of its own
\* from s1 to a state s2 where the focal party's payoff is not greater than at
\* s0, for any number of parties.
C7_SingleMoveSanction ==
    Solved =>
        \A p \in Parties : \A s0 \in States :
            stabilities.seq[p][s0] = 1 <=>
                \A s1 \in Improvements(p, s0, s0) :
                    \E q \in Parties \ {p} : \E s2 \in Improvements(q, s1, s1) :
                        ~StrictlyPrefers(p, s2, s0)

\* a sequence of unilateral improvements by distinct parties of `others`, each
\* from the state the one before it led to, starting at s, ends in a state that
\* p does not strictly prefer to s0
RECURSIVE UISequenceSanctions(_, _, _, _)
UISequenceSanctions(p, others, s0, s) ==
    \E q \in others : \E s2 \in Improvements(q, s, s) :
        \/ ~StrictlyPrefers(p, s2, s0)
        \/ UISequenceSanctions(p, others \ {q}, s0, s2)

\* C7 as amended: seq(party, s0) is True iff every unilateral improvement s1 of
\* the party from s0 is followed by a sequence of one or more unilateral
\* improvements by distinct other parties that ends in a state where the focal
\* party's payoff is not greater than at s0.
C7_SequenceSanction ==
    Solved =>
        \A p \in Parties : \A s0 \in States :
            stabilities.seq[p][s0] = 1 <=>
                \A s1 \in Improvements(p, s0, s0) :
                    UISequenceSanctions(p, Parties \ {p}, s0, s1)

\* a party is SEQ stable at a state where one of its improvements is sanctioned
\* by a sequence of two opponents' moves and by no single move
C7_Witness ==
    /\ Solved
    /\ \E p \in Parties : \E s0 \in States :
           /\ stabilities.seq[p][s0] = 1
           /\ \E s1 \in Improvements(p, s0, s0) :
                  ~\E q \in Parties \ {p} : \E s2 \in Improvements(q, s1, s1) :
                       ~StrictlyPrefers(p, s2, s0)

\* the sum of f over a finite set of parties
RECURSIVE SumOver(_, _)
SumOver(f, S) ==
    IF S = {} THEN 0
    ELSE LET q == CHOOSE x \in S : TRUE IN f[q] + SumOver(f, S \ {q})

\* some choice, for each other party, of no move (s0 itself) or one of its
\* unilateral improvements from s0 leads, combined with the move to s1, to a
\* feasible state that p does not strictly prefer to s0
SimultaneousSanction(p, s0, s1) ==
    \E f \in [Parties \ {p} -> States] :
        /\ \A q \in Parties \ {p} : f[q] = s0 \/ f[q] \in Improvements(q, s0, s0)
        /\ LET combined == At(feasibles, s1)
                           + SumOver([q \in Parties \ {p} |->
                                         At(feasibles, f[q]) - At(feasibles, s0)],
                                     Parties \ {p})
           IN  /\ Contains(feasibles, combined)
               /\ ~StrictlyPrefers(p, IndexOf(feasibles, combined), s0)

\* C8: sim(party, s0) is True iff every unilateral improvement s1 of the party
\* from s0, however many there are, has a combination of the other parties'
\* moves (none, or a unilateral improvement from s0, for each) whose combined
\* state is feasible and not better for the party than s0; each s1 is tested
\* against the full set of combinations.
C8_SimExhaustive ==
    Solved =>
        \A p \in Parties : \A s0 \in States :
            stabilities.sim[p][s0] = 1 <=>
                \A s1 \in Improvements(p, s0, s0) : SimultaneousSanction(p, s0, s1)

\* C9, for conflicts of two effective parties (a sanction is then one move of
\* the one opponent): smr(party, s0) is True iff every unilateral improvement s1
\* of the party from s0 has a reachable opponent move to a state s2 that the
\* party finds no better than s0 and from which the party has no reachable
\* state s3 strictly preferred to s0; for coalitions as for decision makers.
C9_SmrCountermove ==
    (Solved /\ Len(effectiveDMs) = 2) =>
        \A p \in Parties : \A s0 \in States :
            stabilities.smr[p][s0] = 1 <=>
                \A s1 \in Improvements(p, s0, s0) :
                    \E q \in Parties \ {p} : \E s2 \in States :
                        /\ CanReach(q, s1, s2)
                        /\ ~StrictlyPrefers(p, s2, s0)
                        /\ ~\E s3 \in States :
                               CanReach(p, s2, s3) /\ StrictlyPrefers(p, s3, s0)

\* C10: after findEquilibria, for Nash, GMR, SEQ, SIM and SMR the equilibrium
\* vector is True at s iff the stability predicate is True at s for every
\* effective party, and the stability tables hold the predicates' results.
C10_EquilibriaAreAllStable ==
    Solved =>
        \A c \in Concepts :
            /\ \A p \in Parties : \A s \in States :
                   stabilities[c][p][s] = IF Stable(c, p, s) THEN 1 ELSE 0
            /\ \A s \in States :
                   equilibria[c][s] <=> \A p \in Parties : stabilities[c][p][s] = 1

\* findEquilibria has run on two or more parties, with a state that is an
\* equilibrium and a state that is stable for one party and not for another
C10_Witness ==
    /\ Solved
    /\ Len(effectiveDMs) >= 2
    /\ \E s \in States : equilibria.seq[s]
    /\ \E s \in States : \E p \in Parties, q \in Parties :
           /\ stabilities.seq[p][s] = 1
           /\ stabilities.seq[q][s] = 0
           /\ ~equilibria.seq[s]

\* C11: after findEquilibria, seqSimEquilibria is True at s iff s is both a SEQ
\* equilibrium and a SIM equilibrium: seqSimEquilibria = seqEquilibria AND
\* simEquilibria, element-wise.
C11_SeqSimIsSeqAndSim ==
    Solved =>
        \A s \in States : equilibria.seqSim[s] <=> (equilibria.seq[s] /\ equilibria.sim[s])

\* C12: every state reported as a Nash equilibrium is reported as a SEQ and as a
\* GMR equilibrium; a party Nash stable at a state is SEQ, GMR, SIM and SMR
\* stable at it.
C12_NashWithinOthers ==
    Solved =>
        \A s \in States :
            /\ equilibria.nash[s] => (equilibria.seq[s] /\ equilibria.gmr[s])
            /\ \A p \in Parties :
                   stabilities.nash[p][s] = 1 =>
                       \A c \in Concepts : stabilities[c][p][s] = 1

\* findEquilibria has reported a Nash equilibrium and a state that is a SEQ and a
\* GMR equilibrium and not a Nash equilibrium
C12_Witness ==
    /\ Solved
    /\ Len(effectiveDMs) >= 2
    /\ \E s \in States : equilibria.nash[s]
    /\ \E s \in States : ~equilibria.nash[s] /\ equilibria.seq[s] /\ equilibria.gmr[s]

\* C13 as claimed: every state reported as an SMR equilibrium is reported as a
\* SEQ equilibrium, as well as a GMR equilibrium.
C13_SmrWithinSeq ==
    Solved =>
        \A s \in States : equilibria.smr[s] => (equilibria.seq[s] /\ equilibria.gmr[s])

\* C13 as amended: every state reported as an SMR equilibrium is reported as a
\* GMR equilibrium, and a party SMR stable at a state is GMR stable at it.
C13_SmrWithinGmr ==
    Solved =>
        \A s \in States :
            /\ equilibria.smr[s] => equilibria.gmr[s]
            /\ \A p \in Parties : stabilities.smr[p][s] = 1 => stabilities.gmr[p][s] = 1

\* two decision makers on their own: a state where a party has a unilateral
\* improvement is an SMR and a GMR equilibrium and not a SEQ equilibrium
C13_Witness ==
    /\ Solved
    /\ Len(effectiveDMs) = 2
    /\ \A p \in Parties : ~effectiveDMs[p].isCoalition
    /\ \E s \in States :
           /\ equilibria.smr[s] /\ equilibria.gmr[s] /\ ~equilibria.seq[s]
           /\ \E p \in Parties : stabilities.nash[p][s] = 0

\* the parties that are coalitions (Coalition objects)
CoalitionParties == {p \in Parties : effectiveDMs[p].isCoalition}

\* C14: for a coalition party the payoff comparison entry [i,j] is True iff
\* every member's payoff at j is strictly greater than its payoff at i, and
\* False otherwise; UIs(coalition, s) holds exactly the reachable states every
\* member strictly prefers to s, never a state a member finds equal or worse.
C14_CoalitionUnanimity ==
    pc = "built" =>
        \A p \in CoalitionParties : \A i \in States :
            /\ \A j \in States :
                   payoffMatrix[p][i][j] =
                       IF \A d \in Range(effectiveDMs[p].members) :
                              At(payoffs[d], j) > At(payoffs[d], i)
                       THEN 1 ELSE 0
            /\ \A uis \in {UIs(p, i, None)} : \A j \in States :
                   /\ Contains(uis, j) <=>
                          /\ CanReach(p, i, j)
                          /\ \A d \in Range(effectiveDMs[p].members) :
                                 At(payoffs[d], j) > At(payoffs[d], i)
                   /\ (\E d \in Range(effectiveDMs[p].members) :
                           At(payoffs[d], j) <= At(payoffs[d], i)) => ~Contains(uis, j)

\* a coalition of two has, from one state, a unilateral improvement and a
\* reachable state that one member strictly prefers and the other does not
C14_Witness ==
    /\ pc = "built"
    /\ \E p \in CoalitionParties : \E i \in States, j \in States, k \in States :
           /\ Len(effectiveDMs[p].members) = 2
           /\ Contains(UIs(p, i, None), j)
           /\ CanReach(p, i, k)
           /\ ~Contains(UIs(p, i, None), k)
           /\ \E d \in Range(effectiveDMs[p].members) : At(payoffs[d], k) > At(payoffs[d], i)

\* C18: constructing a solver and running a solver pass leaves the conflict
\* model unchanged: the coalition list, the decision makers, the options and
\* their order, the infeasible conditions and the feasible states are after
\* every step what they were before it.
C18_ConflictUnchanged ==
    [][coalitions' = coalitions /\ UNCHANGED conflictVars]_vars

DMs == 1..Len(decisionMakers)

\* the effective parties that cover decision maker d
Covering(d) == {p \in Parties : d \in Range(effectiveDMs[p].members)}

\* C15: when RMGenerator is constructed with coalitions in use, every decision
\* maker of the conflict is covered by exactly one effective party, both when
\* the coalition list is empty and when it is non-empty and omits a decision
\* maker.
C15_EveryDMCovered ==
    (pc = "built" /\ effectiveDMs = coalitions) =>
        \A d \in DMs : Cardinality(Covering(d)) = 1

\* C16: a request for reachable states, unilateral improvements or a stability
\* result with a party that is not among the effective parties, or with a state
\* index outside 0..N-1 (negative indices included), fails with an error and
\* returns no result.
C16_InvalidArgumentsRaise ==
    (call.op # "none" /\ (PositionOf(call.dm) = 0 \/ call.state \notin States)) =>
        ret.raised # ""

\* C17: constructing the matrices for a conflict whose feasible state set is
\* empty fails with an error; construction never completes on such a conflict.
C17_EmptyFeasiblesRaise ==
    NumStates = 0 => pc \in {"model", "raised"}

RECURSIVE Factorial(_)
Factorial(n) == IF n = 0 THEN 1 ELSE n * Factorial(n - 1)

\* a vary span is in order and within the ranking; an empty list varies nothing
ValidSpan(span, n) == span = <<>> \/ (0 <= span[1] /\ span[1] <= span[2] /\ span[2] <= n)

SpanWidth(span) == IF span = <<>> THEN 0 ELSE span[2] - span[1]

\* the 1-based positions of a ranking that lie in the span
InSpan(span, pos) == span # <<>> /\ span[1] < pos /\ pos <= span[2]

\* candidate is a permutation of original: same length, every state once
IsPermutationOf(candidate, original) ==
    /\ Len(candidate) = Len(original)
    /\ \A k \in 1..Len(original) :
           Cardinality({j \in 1..Len(candidate) : candidate[j] = original[k]}) = 1

Generated == pc = "generated"

InverseDMs == 1..Len(call.prefRanks)

RECURSIVE ProductOfFactorials(_, _)
ProductOfFactorials(vary, x) ==
    IF x > Len(vary) THEN 1
    ELSE Factorial(SpanWidth(vary[x])) * ProductOfFactorials(vary, x + 1)

\* C19: for spans in order and within the ranking, prefPermGen yields exactly the
\* Cartesian product of the permutations of each ranking's span: as many joint
\* rankings as the product of (width of span k)!, all different, each decision
\* maker's ranking a permutation of its original ranking and identical to it
\* outside the span; a span of [0,0] yields the original ranking once.
C19_PrefPermGenIsProduct ==
    (Generated /\ \A x \in InverseDMs : ValidSpan(call.vary[x], Len(call.prefRanks[x]))) =>
        /\ Len(ret) = ProductOfFactorials(call.vary, 1)
        /\ \A i \in 1..Len(ret), j \in 1..Len(ret) : i # j => ret[i] # ret[j]
        /\ \A i \in 1..Len(ret) : \A x \in InverseDMs :
               /\ IsPermutationOf(ret[i][x], call.prefRanks[x])
               /\ \A pos \in 1..Len(call.prefRanks[x]) :
                      ~InSpan(call.vary[x], pos) => ret[i][x][pos] = call.prefRanks[x][pos]
        /\ (\A x \in InverseDMs : call.vary[x] = <<0, 0>>) => ret = <<call.prefRanks>>

\* two decision makers with a span of two positions each: four joint rankings
C19_Witness ==
    /\ Generated
    /\ Len(call.prefRanks) = 2
    /\ \A x \in InverseDMs :
           /\ ValidSpan(call.vary[x], Len(call.prefRanks[x]))
           /\ SpanWidth(call.vary[x]) = 2
    /\ Len(ret) = 4

\* C20: a vary range whose bounds are out of order or outside the ranking's
\* length is rejected: it produces no candidate ranking, in particular none that
\* repeats or omits a state of the original ranking.
C20_InvalidSpanRejected ==
    (Generated /\ \E x \in InverseDMs : call.vary[x] # <<>> /\
                    ~ValidSpan(call.vary[x], Len(call.prefRanks[x]))) =>
        /\ ret = <<>>
        /\ \A i \in 1..Len(ret) : \A x \in InverseDMs :
               IsPermutationOf(ret[i][x], call.prefRanks[x])
\* the target state is GMR-stable for dm under the payoffs pay: every reachable
\* state dm prefers to the target has a follow-up state, reached by another
\* decision maker, that dm does not prefer to the target
GmrStableAtTarget(pay, dm) ==
    LET pay0 == At(pay[dm], inverseSolver.desEq)
    IN  \A state1 \in Range(reachable(dm, inverseSolver.desEq)) :
            At(pay[dm], state1) > pay0 =>
                \E state2 \in Range(OthersReachable(dm, state1)) : At(pay[dm], state2) <= pay0

\* C21: after InverseSolver.findEquilibria, for every enumerated joint ranking and
\* every decision maker the GMR flag is True exactly when the target state is
\* GMR-stable for that decision maker under the payoffs of the ranking.
C21_GmrFlagIsGmr ==
    pc = "searched" =>
        \A idx \in 1..Len(inverseSolver.preferenceRankings), dm \in 1..Len(decisionMakers) :
            inverseSolver.gmr[idx][dm] =
                GmrStableAtTarget(InversePayoffs(inverseSolver.preferenceRankings[idx]), dm)

\* the enumerated rankings that meet the thresholds filt, by position
Matching(filt) ==
    {k \in 1..Len(inverseSolver.preferenceRankings) :
        \A c \in 1..4 : filt[c] = 1 => inverseSolver.equilibriums[c][k]}

\* C22: filter(thresholds) returns, in enumeration order, exactly the enumerated
\* joint rankings whose Nash, SEQ, GMR and SMR equilibrium flags each reach the
\* threshold, each with its own flags, and per concept the number of all
\* enumerated rankings that are equilibria; it changes no stored ranking or flag.
C22_FilterSelects ==
    [][call'.op = "filter" /\ call.op # "filter" =>
        /\ inverseSolver' = inverseSolver
        /\ \A order \in {Sorted(Matching(call'.filt))} :
             /\ Len(ret'.values) = Len(order)
             /\ \A j \in 1..Len(order) :
                  /\ ret'.values[j].ranking = inverseSolver.preferenceRankings[order[j]]
                  /\ \A c \in 1..4 :
                       (ret'.values[j].marks[c] = "Y") = inverseSolver.equilibriums[c][order[j]]
        /\ \A c \in 1..4 :
             ret'.counts[c] = Cardinality({k \in 1..Len(inverseSolver.preferenceRankings) :
                                              inverseSolver.equilibriums[c][k]})]_vars

\* filter has returned some of several rankings, left one out, and one returned
\* ranking is not an equilibrium under every concept
C22_Witness ==
    /\ call.op = "filter"
    /\ Len(ret.values) >= 1
    /\ Len(ret.values) < Len(inverseSolver.preferenceRankings)
    /\ \E j \in 1..Len(ret.values), c \in 1..4 : ret.values[j].marks[c] = ""
    /\ \E c \in 1..4 : ret.counts[c] # Len(ret.values)

\* the goals require, for the party co, x more preferred than y: x is to be
\* stable and co can move from x to y
RequiresMore(goals, co, x, y) ==
    \E g \in 1..Len(goals) :
        goals[g] = <<x, TRUE>> /\ Contains(reachable(co, x), y)

\* the pairs of states the goals require each to be more preferred than the
\* other for one party
OpposedPairs(goals) ==
    {pair \in States \X States :
        \E co \in 1..Len(effectiveDMs) :
            RequiresMore(goals, co, pair[1], pair[2]) /\ RequiresMore(goals, co, pair[2], pair[1])}

\* C23: when the goals given to GoalSeeker.nash() require, for one party, both X
\* more preferred than Y and Y more preferred than X, the consistency check
\* returns a conflict message naming two such states and asString gives that
\* message; when the goals hold no such pair the check reports no conflict.
C23_OpposedGoalsReported ==
    call.op = "nash" =>
        \A opposed \in {OpposedPairs(call.goals)} :
            /\ ret.raised = ""
            /\ IF opposed = {}
               THEN ret.value.conf = None
               ELSE /\ \E pair \in opposed :
                         ret.value.conf = ConflictMessage(pair[1], pair[2])
                    /\ ret.value.asString = ret.value.conf

\* C28: every call of nash() returns what it would return as the first call ever
\* made: no relation recorded while checking earlier goals bears on it.
C28_ChecksIndependent ==
    call.op = "nash" => ret = NashOutcome(call.goals, {})

\* C24: after ConflictModel.json_import the coalition list partitions the
\* decision makers, every decision maker in exactly one entry, whatever the
\* coalition data: data that leaves a decision maker out or lists one twice is
\* replaced by one entry per decision maker, and the import does not raise.
C24_ImportPartitions ==
    call.op = "json_import" =>
        /\ pc # "raised"
        /\ \A d \in 1..Len(decisionMakers) :
               Cardinality({k \in 1..Len(Listed(coalitions)) : Listed(coalitions)[k] = d}) = 1

\* C25: a manual ranking that omits or duplicates a feasible state is never used
\* to derive payoffs: whenever manual rankings are in force and a decision maker
\* has payoffs, its stored ranking ranks every feasible state exactly once,
\* whether the ranking came from an editor or from a save file; and while a
\* ranking error is outstanding the analysis frames lack their required data.
C25_InvalidRankingUnused ==
    /\ useManualPreferenceRanking =>
           \A d \in 1..Len(decisionMakers) :
               payoffs[d] # <<>> =>
                   validatePreferenceRanking(preferenceRanking[d], NumStates) = ""
    /\ preferenceErrors \notin {None, <<0>>} => ~hasRequiredData

\* C26: no solver is constructed on stale derived data: whenever a solver has
\* been constructed, after whatever options and infeasible conditions were
\* added or removed before, the feasible states it read are the feasible
\* states of the conflict's options and infeasible conditions as they are, and
\* every decision maker's payoff vector has one entry per such state.
C26_NoStaleFeasibles ==
    Built =>
        /\ feasibles = FeasibleList(NumOptions, infeasibles)
        /\ \A d \in 1..Len(decisionMakers) :
               Len(payoffs[d]) = Len(FeasibleList(NumOptions, infeasibles))

\* the calls of checkSanctions behind the answer of seq, gmr or smr about the
\* improvement of party dm from state0 to state1
SanctionCalls(dm, state0, state1, uiOnly, countermove) ==
    CallsOfCheckSanctions(dm, Without(AllParties, dm), state0, state1, uiOnly,
                          countermove, 0, <<>>)

\* C27: the sanction search ends: in a solver just constructed, for every party, state and improvement of the
\* party from it, and whichever way seq, gmr and smr call checkSanctions, no
\* chain of moves followed has an opponent move twice, no call is nested deeper
\* than the number of other parties, and the search answers as checkSanctions.
C27_SanctionSearchBounded ==
    pc = "built" =>
        \A dm \in 1..Len(effectiveDMs), state0 \in States :
            \A k \in 1..Len(UIs(dm, state0, None)),
               uiOnly \in BOOLEAN, countermove \in BOOLEAN :
                \A calls \in {SanctionCalls(dm, state0, UIs(dm, state0, None)[k],
                                            uiOnly, countermove)} :
                    /\ calls.once
                    /\ calls.depth <= Len(Without(AllParties, dm))
                    /\ calls.sanc = checkSanctions(dm, Without(AllParties, dm), state0,
                                                   UIs(dm, state0, None)[k], uiOnly,
                                                   countermove).sanc

\* a solver of three parties where the search about some improvement follows a
\* move of one opponent by a move of the other, and finds no sanction
C27_Witness ==
    /\ pc = "built"
    /\ Len(effectiveDMs) = 3
    /\ \E dm \in 1..3, state0 \in States :
           \E k \in 1..Len(UIs(dm, state0, None)) :
               \A calls \in {SanctionCalls(dm, state0, UIs(dm, state0, None)[k],
                                           FALSE, FALSE)} :
                   calls.depth = 2 /\ ~calls.sanc

\* the parties that control an option: the decision makers of the conflict and
\* the Coalitions of the coalition list that hold it in their option lists
Controlling(option) ==
    Cardinality({d \in Range(dmItems) : Contains(dmOptionItems[d], option)})
    + Cardinality({k \in 1..Len(coalitionItems) :
                      coalitionItems[k].isCoalition
                      /\ Contains(coalitionItems[k].options, option)})

\* C29: after any addOption, removeOption and coalition refresh, every option
\* in the option list of a decision maker of the conflict is in the conflict's
\* master option list, and the reference count of every option of the master
\* list is the number of parties that control it.
C29_MasterListAndRefs ==
    /\ \A d \in Range(dmItems) :
           \A k \in 1..Len(dmOptionItems[d]) : Contains(optionItems, dmOptionItems[d][k])
    /\ \A option \in Range(optionItems) : refs[option] = Controlling(option)

\* C30: when the deletion of a decision maker from the decision maker list has
\* returned, no entry of the coalition list is that decision maker, and no
\* Coalition of the list has it as a member.
C30_DeletedLeavesCoalitions ==
    call.op = "decisionMakers.__delitem__" /\ ret = Returned(None) =>
        \A k \in 1..Len(coalitionItems) : ~Contains(coalitionItems[k].members, call.dm)

====
